---- MODULE Spec2Model ----
(***************************************************************************)
(* Model of the ByteQuest content verifier: the status normalizers and the *)
(* result merge of supabase/functions/verify-content, and the citation     *)
(* re-verifier of supabase/functions/verify-citations.                     *)
(*                                                                         *)
(* Also the handler of supabase/functions/detect-ai.                       *)
(*                                                                         *)
(* JavaScript values are tagged records [k |-> kind, v |-> payload]; a     *)
(* JavaScript string is the sequence of its characters, so that            *)
(* toLowerCase, includes and substring are computed, not assumed.          *)
(***************************************************************************)
EXTENDS Integers, Sequences, FiniteSets, TLC

VARIABLES
    normRaw,          \* the raw status handed to the normalizers
    normClaimOut,     \* what normalizeClaimStatus returned for it ("pending" before)
    normCitationOut,  \* what normalizeCitationStatus returned for it
    \* ---- verify-content: one request to the Verify operation ----
    vcPc,             \* "idle", "backend" (backend fetch in flight), "ai" (AI fetch
                      \* in flight) or "responded"
    vcReq,            \* the request body: [parses, json]
    vcApiKey,         \* whether Deno.env.get("LOVABLE_API_KEY") is set
    vcBackendOut,     \* how the backend call ended (kind "none" before it has)
    vcAiOut,          \* how the AI-insight call ended (kind "none" before it has)
    vcBackendResult,  \* backendResult
    vcBackendError,   \* backendError ("" for null)
    vcAiResult,       \* aiResult (JNull for null)
    vcCalls,          \* the upstream calls issued so far, in order
    vcResp,           \* the response: [status, final, hasResult, error]
    \* ---- verify-citations: one request to the Verify Citations operation ----
    ctPc,             \* "idle", "probing" (Promise.all pending) or "responded"
    ctReq,            \* the request body: [parses, json, isArray, citations]
    ctProbe,          \* per citation, its probe: [pc, timer, fetched, outcome,
                      \* code, result]: where checkUrl is, whether its abort
                      \* timer is armed, whether it issued a fetch, how the
                      \* fetch ended and with which response status, and what
                      \* checkUrl returned
    ctOut,            \* per citation, the callback's return value once it has one
    ctDone,           \* the indexes in the order their callbacks resolved
    ctResp,           \* the response: [status, citations, error]
    \* ---- the dashboard's re-verification of the current result's citations ----
    rvOrig,           \* the citations of the result when it was created
    rvCitations,      \* result.citations now
    rvLast,           \* the latest run: [done, results, repeat]: what checkUrl
                      \* returned, and whether the run before got the same
    \* ---- detect-ai: one request to the Detect AI operation ----
    dtPc,             \* "idle", "ai" (gateway fetch in flight) or "responded"
    dtReq,            \* the request body: [parses, json]
    dtApiKey,         \* whether Deno.env.get("LOVABLE_API_KEY") is set
    dtCalls,          \* the number of gateway calls issued so far
    dtOut,            \* how the gateway call ended (kind "none" before it has)
    dtResp,           \* the response: [status, error, result]
    \* ---- the client: the dashboard and comparison mode ----
    dbInputText,      \* inputText
    dbIsVerifying,    \* isVerifying
    dbIsVerifyingCitations, \* isVerifyingCitations
    dbResult,         \* result (JNull for null)
    dbShowResults,    \* showResults
    dbRefreshTrigger, \* historyRefreshTrigger
    dbVerifyCall,     \* the call of handleVerify in progress: [pc, text,
                      \* verifyResponse, aiDetectResponse, verificationResult],
                      \* pc "none", "invoked" (both invocations pending),
                      \* "settled" (both resolved) or "saving" (insert pending)
    dbCiteCall,       \* the citations the pending verify-citations invocation sent
    dbHistory,        \* the rows of verification_history, oldest first
    cmpResultA,       \* resultA of comparison mode
    cmpResultB        \* resultB of comparison mode

normVars == <<normRaw, normClaimOut, normCitationOut>>

vcVars ==
    <<vcPc, vcReq, vcApiKey, vcBackendOut, vcAiOut, vcBackendResult,
      vcBackendError, vcAiResult, vcCalls, vcResp>>

ctVars == <<ctPc, ctReq, ctProbe, ctOut, ctDone, ctResp>>

rvVars == <<rvOrig, rvCitations, rvLast>>

dtVars == <<dtPc, dtReq, dtApiKey, dtCalls, dtOut, dtResp>>

dbVars ==
    <<dbInputText, dbIsVerifying, dbIsVerifyingCitations, dbResult, dbShowResults,
      dbRefreshTrigger, dbVerifyCall, dbCiteCall, dbHistory, cmpResultA, cmpResultB>>

vars == <<normVars, vcVars, ctVars, rvVars, dtVars, dbVars>>

\* What the steps of one component leave alone: the other components' state.
notNorm == <<vcVars, ctVars, rvVars, dtVars, dbVars>>

notVc == <<normVars, ctVars, rvVars, dtVars, dbVars>>

notCt == <<normVars, vcVars, rvVars, dtVars, dbVars>>

notRv == <<normVars, vcVars, ctVars, dtVars, dbVars>>

notDt == <<normVars, vcVars, ctVars, rvVars, dbVars>>

notDb == <<normVars, vcVars, ctVars, rvVars, dtVars>>

(***************************************************************************)
(* Bounds of the model.                                                    *)
(***************************************************************************)
\* A raw status is the concatenation of at most MaxWords vocabulary words.
MaxWords == 2

\* The backend body holds at most MaxClaims claims and MaxBodyCitations citations.
MaxClaims == 2

MaxBodyCitations == 1

\* A verify-citations request holds at most MaxCitations citations.
MaxCitations == 2

\* The result the dashboard re-verifies holds at most MaxReverified citations.
MaxReverified == 1

(***************************************************************************)
(* JavaScript values.                                                      *)
(***************************************************************************)
JUndef == [k |-> "undefined", v |-> 0]

JNull == [k |-> "null", v |-> 0]

JBool(b) == [k |-> "bool", v |-> b]

JNum(n) == [k |-> "num", v |-> n]

JStr(s) == [k |-> "str", v |-> s]

JArr(a) == [k |-> "arr", v |-> a]

JObj(o) == [k |-> "obj", v |-> o]

\* The value a thrown TypeError leaves in place of a result.
JThrow == [k |-> "throw", v |-> 0]

\* ToBoolean: undefined, null, false, 0 and "" are falsy.
Truthy(x) ==
    CASE x.k = "undefined" -> FALSE
      [] x.k = "null" -> FALSE
      [] x.k = "bool" -> x.v
      [] x.k = "num" -> x.v # 0
      [] x.k = "str" -> x.v # <<>>
      [] OTHER -> TRUE

(***************************************************************************)
(* Strings.                                                                *)
(***************************************************************************)
UpperChars ==
    <<"A", "B", "C", "D", "E", "F", "G", "H", "I", "J", "K", "L", "M",
      "N", "O", "P", "Q", "R", "S", "T", "U", "V", "W", "X", "Y", "Z">>

LowerChars ==
    <<"a", "b", "c", "d", "e", "f", "g", "h", "i", "j", "k", "l", "m",
      "n", "o", "p", "q", "r", "s", "t", "u", "v", "w", "x", "y", "z">>

LowerChar(c) ==
    IF \E i \in DOMAIN UpperChars : UpperChars[i] = c
    THEN LowerChars[CHOOSE i \in DOMAIN UpperChars : UpperChars[i] = c]
    ELSE c

\* String.prototype.toLowerCase
toLowerCase(s) == [i \in DOMAIN s |-> LowerChar(s[i])]

\* String.prototype.includes
includes(s, sub) ==
    \E i \in 0..(Len(s) - Len(sub)) : SubSeq(s, i + 1, i + Len(sub)) = sub

\* String.prototype.substring(0, n)
substring0(s, n) == SubSeq(s, 1, IF Len(s) < n THEN Len(s) ELSE n)

KwTrue == <<"t", "r", "u", "e">>

KwVerified == <<"v", "e", "r", "i", "f", "i", "e", "d">>

KwAccurate == <<"a", "c", "c", "u", "r", "a", "t", "e">>

KwCorrect == <<"c", "o", "r", "r", "e", "c", "t">>

KwFalse == <<"f", "a", "l", "s", "e">>

KwIncorrect == <<"i", "n", "c", "o", "r", "r", "e", "c", "t">>

KwWrong == <<"w", "r", "o", "n", "g">>

KwFake == <<"f", "a", "k", "e">>

KwValid == <<"v", "a", "l", "i", "d">>

KwExists == <<"e", "x", "i", "s", "t", "s">>

KwFound == <<"f", "o", "u", "n", "d">>

KwWorking == <<"w", "o", "r", "k", "i", "n", "g">>

KwFabricated == <<"f", "a", "b", "r", "i", "c", "a", "t", "e", "d">>

KwNonexistent == <<"n", "o", "n", "e", "x", "i", "s", "t", "e", "n", "t">>

(***************************************************************************)
(* The status normalizers.                                                 *)
(***************************************************************************)
ClaimStatuses == { "verified", "questionable", "false" }

CitationStatuses == { "valid", "broken", "fake" }

\* normalizeClaimStatus without its guard on a missing status.
normalizeClaimStatus_NoGuard(status) ==
    IF status.k # "str" THEN "TypeError"
    ELSE LET s == toLowerCase(status.v)
         IN  IF \/ includes(s, KwTrue) \/ includes(s, KwVerified)
                \/ includes(s, KwAccurate) \/ includes(s, KwCorrect)
             THEN "verified"
             ELSE IF \/ includes(s, KwFalse) \/ includes(s, KwIncorrect)
                     \/ includes(s, KwWrong) \/ includes(s, KwFake)
                  THEN "false"
                  ELSE "questionable"

\* normalizeClaimStatus(status): "TypeError" stands for the exception that
\* status.toLowerCase() raises on a truthy value that is not a string.
normalizeClaimStatus(status) ==
    IF ~Truthy(status) THEN "questionable"
    ELSE IF status.k # "str" THEN "TypeError"
    ELSE LET s == toLowerCase(status.v)
         IN  IF \/ includes(s, KwTrue) \/ includes(s, KwVerified)
                \/ includes(s, KwAccurate) \/ includes(s, KwCorrect)
             THEN "verified"
             ELSE IF \/ includes(s, KwFalse) \/ includes(s, KwIncorrect)
                     \/ includes(s, KwWrong) \/ includes(s, KwFake)
                  THEN "false"
                  ELSE "questionable"

\* normalizeCitationStatus testing the fabrication keywords first.
normalizeCitationStatus_FakeFirst(status) ==
    IF ~Truthy(status) THEN "broken"
    ELSE IF status.k # "str" THEN "TypeError"
    ELSE LET s == toLowerCase(status.v)
         IN  IF \/ includes(s, KwFake) \/ includes(s, KwFabricated)
                \/ includes(s, KwNonexistent) \/ includes(s, KwFalse)
             THEN "fake"
             ELSE IF \/ includes(s, KwValid) \/ includes(s, KwExists)
                     \/ includes(s, KwFound) \/ includes(s, KwWorking)
                  THEN "valid"
                  ELSE "broken"

\* normalizeCitationStatus(status)
normalizeCitationStatus(status) ==
    IF ~Truthy(status) THEN "broken"
    ELSE IF status.k # "str" THEN "TypeError"
    ELSE LET s == toLowerCase(status.v)
         IN  IF \/ includes(s, KwValid) \/ includes(s, KwExists)
                \/ includes(s, KwFound) \/ includes(s, KwWorking)
             THEN "valid"
             ELSE IF \/ includes(s, KwFake) \/ includes(s, KwFabricated)
                     \/ includes(s, KwNonexistent) \/ includes(s, KwFalse)
                  THEN "fake"
                  ELSE "broken"

(***************************************************************************)
(* The normalizers applied to bounded raw statuses.                        *)
(***************************************************************************)
\* The words raw statuses are built from: every keyword of both tables, the
\* prefixes that turn a keyword into its opposite, upper-case spellings and
\* a word that holds no keyword.
Words ==
    { KwTrue, KwVerified, KwAccurate, KwCorrect,
      KwFalse, KwIncorrect, KwWrong, KwFake,
      KwValid, KwExists, KwFound, KwWorking,
      KwFabricated, KwNonexistent,
      <<"i", "n">>, <<"u", "n">>,
      <<"T", "R", "U", "E">>, <<"V", "a", "l", "i", "d">>,
      <<"F", "A", "K", "E">>, <<"m", "a", "y", "b", "e">> }

RECURSIVE Concat(_)
Concat(ws) == IF ws = <<>> THEN <<>> ELSE Head(ws) \o Concat(Tail(ws))

RawStrings == { Concat(ws) : ws \in UNION { [1..n -> Words] : n \in 0..MaxWords } }

\* What a caller can hand to a normalizer: a string, nothing, or (from an
\* upstream JSON body) a value of another type.
RawStatuses ==
    { JStr(s) : s \in RawStrings } \cup { JUndef, JNull, JNum(1), JNum(0), JBool(TRUE) }

NormInit ==
    /\ normRaw \in RawStatuses
    /\ normClaimOut = "pending"
    /\ normCitationOut = "pending"

NormIdle ==
    /\ normRaw = JUndef
    /\ normClaimOut = "pending"
    /\ normCitationOut = "pending"

ApplyNormalizeClaimStatus ==
    /\ normClaimOut = "pending"
    /\ normClaimOut' = normalizeClaimStatus(normRaw)
    /\ UNCHANGED <<normRaw, normCitationOut>>
    /\ UNCHANGED notNorm

ApplyNormalizeCitationStatus ==
    /\ normCitationOut = "pending"
    /\ normCitationOut' = normalizeCitationStatus(normRaw)
    /\ UNCHANGED <<normRaw, normClaimOut>>
    /\ UNCHANGED notNorm

NormNext == ApplyNormalizeClaimStatus \/ ApplyNormalizeCitationStatus

(***************************************************************************)
(* JavaScript expressions the merge is written with.                       *)
(***************************************************************************)
Nullish(x) == x.k \in {"null", "undefined"}

\* x.key for a value that is not null or undefined: the property of an
\* object, undefined on a missing property, an array or a primitive.
Get(x, key) ==
    IF x.k = "obj" /\ key \in DOMAIN x.v THEN x.v[key] ELSE JUndef

\* a || b
Or(a, b) == IF Truthy(a) THEN a ELSE b

\* a ?? b
Coalesce(a, b) == IF Nullish(a) THEN b ELSE a

\* x?.key
OptGet(x, key) == IF Nullish(x) THEN JUndef ELSE Get(x, key)

(***************************************************************************)
(* Texts of the model.                                                     *)
(***************************************************************************)
TextEiffel ==
    <<"T", "h", "e", " ", "E", "i", "f", "f", "e", "l", " ", "T", "o", "w",
      "e", "r", " ", "i", "s", " ", "3", "3", "0", "m", " ", "t", "a", "l",
      "l">>

TextEiffelLong ==
    <<"T", "H", "E", " ", "E", "I", "F", "F", "E", "L", " ", "T", "O", "W",
      "E", "R", " ", "I", "S", " ", "3", "3", "0", "M", " ", "T", "A", "L",
      "L", " ", "a", "n", "d", " ", "o", "p", "e", "n", "e", "d", " ", "i",
      "n", " ", "1", "8", "8", "9">>

TextMoon ==
    <<"T", "h", "e", " ", "M", "o", "o", "n", " ", "i", "s", " ", "m", "a",
      "d", "e", " ", "o", "f", " ", "c", "h", "e", "e", "s", "e">>

UrlWiki ==
    <<"h", "t", "t", "p", "s", ":", "/", "/", "e", "n", ".", "w", "i", "k",
      "i", "p", "e", "d", "i", "a", ".", "o", "r", "g", "/", "w", "i", "k",
      "i", "/", "E", "i", "f", "f", "e", "l", "_", "T", "o", "w", "e", "r">>

UrlNasa ==
    <<"h", "t", "t", "p", "s", ":", "/", "/", "n", "a", "s", "a", ".", "g",
      "o", "v">>

UrlNoScheme == <<"w", "w", "w", ".", "n", "a", "s", "a", ".", "g", "o", "v">>

SUnknownUrl == <<"u", "n", "k", "n", "o", "w", "n">>

\* The default risk of the backend branch taken from the fallback branch.
SMedium_Unknown == <<"U", "n", "k", "n", "o", "w", "n">>

SMedium == <<"M", "e", "d", "i", "u", "m">>

SUnableToAssess ==
    <<"U", "n", "a", "b", "l", "e", " ", "t", "o", " ", "a", "s", "s", "e",
      "s", "s">>

SUnknown == <<"U", "n", "k", "n", "o", "w", "n">>

SBackendRequired ==
    <<"B", "a", "c", "k", "e", "n", "d", " ", "v", "e", "r", "i", "f", "i",
      "c", "a", "t", "i", "o", "n", " ", "r", "e", "q", "u", "i", "r", "e",
      "d">>

SUnableToVerify ==
    <<"U", "n", "a", "b", "l", "e", " ", "t", "o", " ", "v", "e", "r", "i",
      "f", "y", " ", "w", "i", "t", "h", "o", "u", "t", " ", "b", "a", "c",
      "k", "e", "n", "d">>

SHigh == <<"H", "i", "g", "h">>

SLow == <<"L", "o", "w">>

SCritical == <<"C", "r", "i", "t", "i", "c", "a", "l">>

SNote ==
    <<"m", "a", "t", "c", "h", "e", "s", " ", "o", "f", "f", "i", "c", "i",
      "a", "l", " ", "s", "p", "e", "c">>

SWikipedia == <<"W", "i", "k", "i", "p", "e", "d", "i", "a">>

(***************************************************************************)
(* verify-content: the merge (step 3 of the handler).                      *)
(***************************************************************************)
\* The length of the prefix the source-suggestion match compares.
PrefixLen == 30

\* The callback of sourceSuggestions.find for one entry s: "true", "false",
\* or "throw" when evaluating it raises a TypeError (s is null, or a truthy
\* claim.text or s.claimText is not a string).
SuggestionMatches(claim, s) ==
    LET ct == Get(claim, "text")
    IN  IF ~Truthy(ct) THEN "false"
        ELSE IF Nullish(s) THEN "throw"
        ELSE LET sct == Get(s, "claimText")
             IN  IF ~Truthy(sct) THEN "false"
                 ELSE IF ct.k # "str" \/ sct.k # "str" THEN "throw"
                 ELSE LET a == toLowerCase(ct.v)
                          b == toLowerCase(sct.v)
                      IN  IF \/ includes(a, substring0(b, PrefixLen))
                             \/ includes(b, substring0(a, PrefixLen))
                          THEN "true"
                          ELSE "false"

\* Array.prototype.find over the entries from index i on: the first entry
\* the callback accepts, undefined when there is none, JThrow on a throw.
RECURSIVE FindFrom(_, _, _)
FindFrom(claim, list, i) ==
    IF i > Len(list) THEN JUndef
    ELSE LET m == SuggestionMatches(claim, list[i])
         IN  IF m = "throw" THEN JThrow
             ELSE IF m = "true" THEN list[i]
             ELSE FindFrom(claim, list, i + 1)

\* aiResult?.sourceSuggestions?.find(...): calling find on a value that is
\* not an array raises a TypeError.
AiSuggestion(claim, aiResult) ==
    LET ss == OptGet(aiResult, "sourceSuggestions")
    IN  IF Nullish(ss) THEN JUndef
        ELSE IF ss.k # "arr" THEN JThrow
        ELSE FindFrom(claim, ss.v, 1)

NoClaim == [text |-> JUndef, status |-> "", note |-> JUndef, suggestedSources |-> JUndef]

\* The callback of (backendResult.claims || []).map: [threw, val].
MergeClaim(claim, aiResult) ==
    IF Nullish(claim) THEN [threw |-> TRUE, val |-> NoClaim]
    ELSE LET sug == AiSuggestion(claim, aiResult)
             st == normalizeClaimStatus(
                       Or(Or(Get(claim, "status"), Get(claim, "verdict")),
                          Get(claim, "verification_status")))
         IN  IF sug.k = "throw" \/ st = "TypeError"
             THEN [threw |-> TRUE, val |-> NoClaim]
             ELSE [threw |-> FALSE,
                   val |->
                     [text |-> Or(Or(Get(claim, "text"), Get(claim, "claim")), JStr(<<>>)),
                      status |-> st,
                      note |-> Or(Or(Or(Get(claim, "note"), Get(claim, "explanation")),
                                     Get(claim, "reason")), JStr(<<>>)),
                      suggestedSources |->
                          Or(Or(OptGet(sug, "suggestedSources"),
                                Get(claim, "suggestedSources")), JArr(<<>>))]]

NoCitation == [source |-> JUndef, url |-> JUndef, status |-> "", reason |-> JUndef]

\* The callback of (backendResult.citations || []).map: [threw, val].
MergeCitation(citation) ==
    IF Nullish(citation) THEN [threw |-> TRUE, val |-> NoCitation]
    ELSE LET st == normalizeCitationStatus(
                       Or(Get(citation, "status"), Get(citation, "validity")))
         IN  IF st = "TypeError"
             THEN [threw |-> TRUE, val |-> NoCitation]
             ELSE [threw |-> FALSE,
                   val |->
                     [source |-> Or(Or(Get(citation, "source"), Get(citation, "name")),
                                    JStr(<<>>)),
                      url |-> Or(Get(citation, "url"), JStr(SUnknownUrl)),
                      status |-> st,
                      reason |-> Or(Or(Get(citation, "reason"),
                                       Get(citation, "explanation")), JStr(<<>>))]]

NoResult ==
    [hasError |-> FALSE, error |-> "", trustScore |-> JUndef, claims |-> <<>>,
     citations |-> <<>>, hallucinationRisk |-> JUndef,
     hallucinationRiskReason |-> JUndef, analysisSummary |-> JUndef, source |-> ""]

\* The fallback branch with the client's default score in place of 0.
FallbackResult_DefaultScore(backendError, aiResult) ==
    [hasError |-> TRUE,
     error |-> IF backendError # "" THEN backendError ELSE "Backend verification failed",
     trustScore |-> JNum(50),
     claims |-> <<>>,
     citations |-> <<>>,
     hallucinationRisk |-> Or(OptGet(aiResult, "hallucinationRisk"), JStr(SUnknown)),
     hallucinationRiskReason |->
         Or(OptGet(aiResult, "hallucinationRiskReason"), JStr(SBackendRequired)),
     analysisSummary |-> Or(OptGet(aiResult, "analysisSummary"), JStr(SUnableToVerify)),
     source |-> "ai-only-fallback"]

\* finalResult of the fallback branch.
FallbackResult(backendError, aiResult) ==
    [hasError |-> TRUE,
     error |-> IF backendError # "" THEN backendError ELSE "Backend verification failed",
     trustScore |-> JNum(0),
     claims |-> <<>>,
     citations |-> <<>>,
     hallucinationRisk |-> Or(OptGet(aiResult, "hallucinationRisk"), JStr(SUnknown)),
     hallucinationRiskReason |->
         Or(OptGet(aiResult, "hallucinationRiskReason"), JStr(SBackendRequired)),
     analysisSummary |-> Or(OptGet(aiResult, "analysisSummary"), JStr(SUnableToVerify)),
     source |-> "ai-only-fallback"]

\* finalResult of the backend branch: [threw, result]; threw when mapping
\* the claims or the citations raises a TypeError.
BackendBranch(backendResult, aiResult) ==
    LET rawClaims == Or(Get(backendResult, "claims"), JArr(<<>>))
        rawCitations == Or(Get(backendResult, "citations"), JArr(<<>>))
    IN  IF rawClaims.k # "arr" \/ rawCitations.k # "arr"
        THEN [threw |-> TRUE, result |-> NoResult]
        ELSE LET cl == [i \in DOMAIN rawClaims.v |-> MergeClaim(rawClaims.v[i], aiResult)]
                 ci == [i \in DOMAIN rawCitations.v |-> MergeCitation(rawCitations.v[i])]
             IN  IF \/ \E i \in DOMAIN cl : cl[i].threw
                    \/ \E i \in DOMAIN ci : ci[i].threw
                 THEN [threw |-> TRUE, result |-> NoResult]
                 ELSE [threw |-> FALSE,
                       result |->
                         [hasError |-> FALSE,
                          error |-> "",
                          trustScore |->
                              Coalesce(Coalesce(Get(backendResult, "trustScore"),
                                                Get(backendResult, "trust_score")),
                                       JNum(50)),
                          claims |-> [i \in DOMAIN cl |-> cl[i].val],
                          citations |-> [i \in DOMAIN ci |-> ci[i].val],
                          hallucinationRisk |->
                              Or(OptGet(aiResult, "hallucinationRisk"), JStr(SMedium)),
                          hallucinationRiskReason |->
                              Or(OptGet(aiResult, "hallucinationRiskReason"),
                                 JStr(SUnableToAssess)),
                          analysisSummary |->
                              Or(OptGet(aiResult, "analysisSummary"), JStr(<<>>)),
                          source |-> "backend+ai"]]

\* The merge branching on the absence of an error instead of backendResult.
Merge_BranchOnError(backendResult, backendError, aiResult) ==
    IF backendError = ""
    THEN BackendBranch(backendResult, aiResult)
    ELSE [threw |-> FALSE, result |-> FallbackResult(backendError, aiResult)]

\* The merge: the branch on backendResult.
Merge(backendResult, backendError, aiResult) ==
    IF Truthy(backendResult)
    THEN BackendBranch(backendResult, aiResult)
    ELSE [threw |-> FALSE, result |-> FallbackResult(backendError, aiResult)]

(***************************************************************************)
(* verify-content: the upstream calls (steps 1 and 2 of the handler).      *)
(***************************************************************************)
\* backendResult and backendError after the backend call ended as `out`:
\* the body of a 2xx response that parses, else null and the reason.
BackendCall(out) ==
    CASE out.kind = "ok" -> [result |-> out.body, error |-> ""]
      [] out.kind = "non2xx" ->
            [result |-> JNull, error |-> "Backend API error: " \o ToString(out.status)]
      [] OTHER -> [result |-> JNull, error |-> out.message]

\* aiResult after the AI-insight call ended as `out`: the parsed JSON of the
\* completion, null on a network error, a non-2xx response, a completion
\* without content or content that does not parse.
AiCall(out) == IF out.kind = "parsed" THEN out.body ELSE JNull

NoResponse == [status |-> 0, hasResult |-> FALSE, final |-> NoResult, error |-> ""]

\* The error response answering 500 whatever the code.
ErrorResponse_Always500(code, msg) ==
    [status |-> 500, hasResult |-> FALSE, final |-> NoResult, error |-> msg]

ErrorResponse(code, msg) ==
    [status |-> code, hasResult |-> FALSE, final |-> NoResult, error |-> msg]

\* The response of the handler once both calls have ended: finalResult with
\* status 200, or the outer catch's 500 when the merge threw.
MergedResponse(backendResult, backendError, aiResult) ==
    LET m == Merge(backendResult, backendError, aiResult)
    IN  IF m.threw
        THEN ErrorResponse(500, "TypeError")
        ELSE [status |-> 200, hasResult |-> TRUE, final |-> m.result, error |-> ""]

(***************************************************************************)
(* The requests and upstream responses of the model.                       *)
(***************************************************************************)
RECURSIVE SeqsUpTo(_, _)
SeqsUpTo(S, n) ==
    IF n = 0 THEN { <<>> }
    ELSE LET shorter == SeqsUpTo(S, n - 1)
         IN  shorter \cup { Append(q, x) : q \in { r \in shorter : Len(r) = n - 1 }, x \in S }

\* Request bodies: not JSON, JSON null, no text, an empty text, a text that
\* is not a string, a text.
VerifyRequests ==
    { [parses |-> FALSE, json |-> JUndef],
      [parses |-> TRUE, json |-> JNull],
      [parses |-> TRUE, json |-> JObj(<<>>)],
      [parses |-> TRUE, json |-> JObj([text |-> JStr(<<>>)])],
      [parses |-> TRUE, json |-> JObj([text |-> JNum(5)])],
      [parses |-> TRUE, json |-> JObj([text |-> JStr(TextEiffel)])] }

\* Elements of the backend's claims array: well-formed claims under either
\* key vocabulary, a claim with a numeric status, a claim with a numeric
\* text, and null.
BackendClaims ==
    { JObj([text |-> JStr(TextEiffel), status |-> JStr(KwTrue), note |-> JStr(SNote)]),
      JObj([claim |-> JStr(TextMoon), verdict |-> JStr(<<"F", "A", "K", "E">>),
            suggestedSources |-> JArr(<<JStr(UrlNasa)>>)]),
      JObj([text |-> JStr(TextMoon), status |-> JNum(1)]),
      JObj([text |-> JNum(3)]),
      JNull }

\* Elements of the backend's citations array.
BackendCitations ==
    { JObj([source |-> JStr(SWikipedia), url |-> JStr(UrlWiki), status |-> JStr(KwValid)]),
      JObj([name |-> JStr(SWikipedia), validity |-> JStr(KwFabricated)]),
      JNull }

\* JSON bodies of a 2xx backend response: the falsy values, a number, an
\* array, and objects whose trustScore, claims and citations are absent,
\* of the wrong type, out of range or as documented.
BackendBodies ==
    { JNull, JBool(FALSE), JNum(0), JStr(<<>>), JNum(7), JArr(<<>>) }
    \cup
    { JObj([trustScore |-> ts, claims |-> cl, citations |-> ci]) :
        ts \in { JUndef, JNum(0), JNum(82), JNum(150) },
        cl \in { JUndef, JNum(5) } \cup { JArr(q) : q \in SeqsUpTo(BackendClaims, MaxClaims) },
        ci \in { JUndef } \cup { JArr(q) : q \in SeqsUpTo(BackendCitations, MaxBodyCitations) } }

BackendOutcomes ==
    { [kind |-> "networkError", status |-> 0, body |-> JUndef, message |-> "fetch failed"],
      [kind |-> "non2xx", status |-> 503, body |-> JUndef, message |-> ""],
      [kind |-> "unparsable", status |-> 200, body |-> JUndef,
       message |-> "Unexpected token < in JSON"] }
    \cup
    { [kind |-> "ok", status |-> 200, body |-> b, message |-> ""] : b \in BackendBodies }

\* JSON values the AI completion parses to.
AiBodies ==
    { JNull,
      JNum(5),
      JObj([hallucinationRisk |-> JStr(SHigh), hallucinationRiskReason |-> JStr(SNote),
            analysisSummary |-> JStr(SNote)]),
      JObj([hallucinationRisk |-> JStr(SCritical)]),
      JObj([hallucinationRisk |-> JStr(<<>>), hallucinationRiskReason |-> JStr(<<>>),
            analysisSummary |-> JStr(<<>>)]),
      JObj([hallucinationRisk |-> JStr(SLow),
            sourceSuggestions |->
                JArr(<<JObj([claimText |-> JStr(TextEiffelLong),
                             suggestedSources |-> JArr(<<JStr(UrlWiki)>>)])>>)]),
      JObj([sourceSuggestions |->
                JArr(<<JObj([claimText |-> JStr(TextMoon),
                             suggestedSources |-> JArr(<<JStr(UrlWiki)>>)]),
                       JObj([claimText |-> JStr(TextMoon),
                             suggestedSources |-> JArr(<<JStr(UrlNasa)>>)])>>)]),
      JObj([sourceSuggestions |-> JNum(5)]),
      JObj([sourceSuggestions |-> JArr(<<JNull>>)]),
      JObj([sourceSuggestions |-> JArr(<<JObj([claimText |-> JNum(1)])>>)]) }

AiOutcomes ==
    { [kind |-> k, body |-> JUndef] :
        k \in { "networkError", "non2xx", "noContent", "unparsable" } }
    \cup
    { [kind |-> "parsed", body |-> b] : b \in AiBodies }

NoOutcome == [kind |-> "none", status |-> 0, body |-> JUndef, message |-> ""]

NoAiOutcome == [kind |-> "none", body |-> JUndef]

(***************************************************************************)
(* verify-content: the handler.                                            *)
(***************************************************************************)
VerifyInit ==
    /\ vcPc = "idle"
    /\ vcReq \in VerifyRequests
    /\ vcApiKey \in BOOLEAN
    /\ vcBackendOut = NoOutcome
    /\ vcAiOut = NoAiOutcome
    /\ vcBackendResult = JNull
    /\ vcBackendError = ""
    /\ vcAiResult = JNull
    /\ vcCalls = <<>>
    /\ vcResp = NoResponse

VerifyIdle ==
    /\ vcPc = "off"
    /\ vcReq = [parses |-> FALSE, json |-> JUndef]
    /\ vcApiKey = FALSE
    /\ vcBackendOut = NoOutcome
    /\ vcAiOut = NoAiOutcome
    /\ vcBackendResult = JNull
    /\ vcBackendError = ""
    /\ vcAiResult = JNull
    /\ vcCalls = <<>>
    /\ vcResp = NoResponse

\* const { text } = await req.json(): a body that is not JSON, or JSON null,
\* throws into the outer catch.
VerifyRejectBody ==
    /\ vcPc = "idle"
    /\ ~vcReq.parses \/ Nullish(vcReq.json)
    /\ vcPc' = "responded"
    /\ vcResp' = ErrorResponse(500, IF vcReq.parses THEN "TypeError" ELSE "SyntaxError")
    /\ UNCHANGED <<vcReq, vcApiKey, vcBackendOut, vcAiOut, vcBackendResult,
                   vcBackendError, vcAiResult, vcCalls>>
    /\ UNCHANGED notVc

\* if (!text || typeof text !== "string") return 400
VerifyRejectText ==
    /\ vcPc = "idle"
    /\ vcReq.parses /\ ~Nullish(vcReq.json)
    /\ LET text == Get(vcReq.json, "text")
       IN  ~Truthy(text) \/ text.k # "str"
    /\ vcPc' = "responded"
    /\ vcResp' = ErrorResponse(400, "Text is required")
    /\ UNCHANGED <<vcReq, vcApiKey, vcBackendOut, vcAiOut, vcBackendResult,
                   vcBackendError, vcAiResult, vcCalls>>
    /\ UNCHANGED notVc

\* A valid text: the backend fetch is issued and awaited.
VerifyCallBackend ==
    /\ vcPc = "idle"
    /\ vcReq.parses /\ ~Nullish(vcReq.json)
    /\ LET text == Get(vcReq.json, "text")
       IN  Truthy(text) /\ text.k = "str"
    /\ vcPc' = "backend"
    /\ vcCalls' = Append(vcCalls, "backend")
    /\ UNCHANGED <<vcReq, vcApiKey, vcBackendOut, vcAiOut, vcBackendResult,
                   vcBackendError, vcAiResult, vcResp>>
    /\ UNCHANGED notVc

\* The backend call ends; LOVABLE_API_KEY is not set: throw into the outer catch.
VerifyBackendEndsNoKey ==
    /\ vcPc = "backend"
    /\ ~vcApiKey
    /\ \E out \in BackendOutcomes :
          /\ vcBackendOut' = out
          /\ vcBackendResult' = BackendCall(out).result
          /\ vcBackendError' = BackendCall(out).error
    /\ vcPc' = "responded"
    /\ vcResp' = ErrorResponse(500, "LOVABLE_API_KEY is not configured")
    /\ UNCHANGED <<vcReq, vcApiKey, vcAiOut, vcAiResult, vcCalls>>
    /\ UNCHANGED notVc

\* The backend call ends; the key is set: the AI fetch is issued and awaited.
VerifyBackendEnds ==
    /\ vcPc = "backend"
    /\ vcApiKey
    /\ \E out \in BackendOutcomes :
          /\ vcBackendOut' = out
          /\ vcBackendResult' = BackendCall(out).result
          /\ vcBackendError' = BackendCall(out).error
    /\ vcPc' = "ai"
    /\ vcCalls' = Append(vcCalls, "ai")
    /\ UNCHANGED <<vcReq, vcApiKey, vcAiOut, vcAiResult, vcResp>>
    /\ UNCHANGED notVc

\* The AI call ends; the merge runs and the response is sent.
VerifyAiEnds ==
    /\ vcPc = "ai"
    /\ \E out \in AiOutcomes :
          /\ vcAiOut' = out
          /\ vcAiResult' = AiCall(out)
          /\ vcResp' = MergedResponse(vcBackendResult, vcBackendError, AiCall(out))
    /\ vcPc' = "responded"
    /\ UNCHANGED <<vcReq, vcApiKey, vcBackendOut, vcBackendResult, vcBackendError, vcCalls>>
    /\ UNCHANGED notVc

VerifyNext ==
    \/ VerifyRejectBody
    \/ VerifyRejectText
    \/ VerifyCallBackend
    \/ VerifyBackendEndsNoKey
    \/ VerifyBackendEnds
    \/ VerifyAiEnds

(***************************************************************************)
(* verify-citations: the URL probe and the reconciliation.                 *)
(***************************************************************************)
SHttp == <<"h", "t", "t", "p">>

\* String.prototype.startsWith
startsWith(s, prefix) ==
    Len(s) >= Len(prefix) /\ SubSeq(s, 1, Len(prefix)) = prefix

\* The guard rejecting nothing but a falsy url.
UrlRejected_OnlyFalsy(url) ==
    ~Truthy(url)

\* The guard of checkUrl: no fetch is made for a falsy url, for "unknown",
\* or for a url that does not start with "http" (on a truthy value that is
\* not a string, url.startsWith throws into checkUrl's own catch).
UrlRejected(url) ==
    \/ ~Truthy(url)
    \/ url.k # "str"
    \/ url.v = SUnknownUrl
    \/ ~startsWith(url.v, SHttp)

NoTitle == [has |-> FALSE, text |-> ""]

\* { exists: false, status: 0 }: the guard's answer and the catch's.
Unreachable == [exists |-> FALSE, status |-> 0, title |-> NoTitle]

\* The result taking any response for a page that exists.
ProbeResult_AnyResponse(status, body) ==
    [exists |-> TRUE, status |-> status,
     title |-> IF body.titleMatch
               THEN [has |-> TRUE, text |-> body.trimmed]
               ELSE NoTitle]

\* What checkUrl returns for a response with its body read: a non-2xx status
\* gives exists false with that status; a 2xx status gives exists true and
\* the trimmed text of the first title element, if there is one.
ProbeResult(status, body) ==
    IF status < 200 \/ status > 299
    THEN [exists |-> FALSE, status |-> status, title |-> NoTitle]
    ELSE [exists |-> TRUE, status |-> status,
          title |-> IF body.titleMatch
                    THEN [has |-> TRUE, text |-> body.trimmed]
                    ELSE NoTitle]

\* The title with no fallback for a missing or empty one.
TitleOrUnknown_NoFallback(title) ==
    title.text

\* result.title || 'Unknown'
TitleOrUnknown(title) ==
    IF title.has /\ title.text # "" THEN title.text ELSE "Unknown"

\* The reconciliation writing a reason that annotates the previous one on
\* every run.
Reconcile_AnnotatesReason(citation, result) ==
    [citation EXCEPT
        !.status = IF result.exists /\ citation.status = "broken" THEN "valid"
                   ELSE IF ~result.exists /\ citation.status = "valid" THEN "broken"
                   ELSE citation.status,
        !.reason = citation.reason \o " [HTTP " \o ToString(result.status) \o "]",
        !.verified = TRUE,
        !.httpStatus = result.status,
        !.pageTitle = result.title]

\* The reconciliation trusting the probe for every citation, fake or not.
Reconcile_ProbeDecides(citation, result) ==
    [citation EXCEPT
        !.status = IF result.exists THEN "valid" ELSE "broken",
        !.reason = IF result.exists
                   THEN "URL is accessible. Page title: \""
                            \o TitleOrUnknown(result.title) \o "\""
                   ELSE IF result.status # 0
                        THEN "URL returned HTTP " \o ToString(result.status)
                        ELSE "URL is not accessible or does not exist",
        !.verified = TRUE,
        !.httpStatus = result.status,
        !.pageTitle = result.title]

\* The callback of citations.map once checkUrl has returned `result`.
Reconcile(citation, result) ==
    LET flipToValid == result.exists /\ citation.status = "broken"
        flipToBroken == ~result.exists /\ citation.status = "valid"
    IN  [citation EXCEPT
            !.status = IF flipToValid THEN "valid"
                       ELSE IF flipToBroken THEN "broken"
                       ELSE citation.status,
            !.reason = IF flipToValid
                       THEN "URL is accessible. Page title: \""
                                \o TitleOrUnknown(result.title) \o "\""
                       ELSE IF flipToBroken
                            THEN IF result.status # 0
                                 THEN "URL returned HTTP " \o ToString(result.status)
                                 ELSE "URL is not accessible or does not exist"
                            ELSE citation.reason,
            !.verified = TRUE,
            !.httpStatus = result.status,
            !.pageTitle = result.title]

(***************************************************************************)
(* The citations and probe outcomes of the model.                          *)
(***************************************************************************)
\* A citation as the client sends it the first time: verified, httpStatus
\* and pageTitle are not set yet (httpStatus -1 stands for an absent field).
Citation(source, url, status, reason) ==
    [nul |-> FALSE, source |-> source, url |-> url, status |-> status,
     reason |-> reason, verified |-> FALSE, httpStatus |-> -1, pageTitle |-> NoTitle]

\* A null element of the citations array.
NullCitation ==
    [nul |-> TRUE, source |-> "", url |-> JUndef, status |-> "", reason |-> "",
     verified |-> FALSE, httpStatus |-> -1, pageTitle |-> NoTitle]

\* The cited sources: two with a URL to fetch, one with the "unknown"
\* sentinel, one with a url that lacks its scheme, one without a url.
CitedSources ==
    { [source |-> "Wikipedia", url |-> JStr(UrlWiki)],
      [source |-> "NASA", url |-> JStr(UrlNasa)],
      [source |-> "Blog", url |-> JStr(SUnknownUrl)],
      [source |-> "Archive", url |-> JStr(UrlNoScheme)],
      [source |-> "Memo", url |-> JUndef] }

CitationInputs ==
    { Citation(c.source, c.url, st, "cited in the text") :
        c \in CitedSources, st \in CitationStatuses }

\* What the body of a 2xx response holds for the title scan: no title
\* element, a title that trims to nothing, a title.
PageBodies ==
    { [titleMatch |-> FALSE, trimmed |-> ""],
      [titleMatch |-> TRUE, trimmed |-> ""],
      [titleMatch |-> TRUE, trimmed |-> "Example Domain"] }

\* Statuses of the non-2xx responses a fetch can resolve with.
NotOkStatuses == { 404 }

NoBody == [titleMatch |-> FALSE, trimmed |-> ""]

\* What checkUrl can return for a url.
PossibleResults(url) ==
    IF UrlRejected(url) THEN { Unreachable }
    ELSE { ProbeResult(200, b) : b \in PageBodies }
         \cup { ProbeResult(st, NoBody) : st \in NotOkStatuses }
         \cup { Unreachable }

(***************************************************************************)
(* verify-citations: the handler.                                          *)
(***************************************************************************)
CiteRequests ==
    { [parses |-> FALSE, nul |-> FALSE, isArray |-> FALSE, citations |-> <<>>],
      [parses |-> TRUE, nul |-> TRUE, isArray |-> FALSE, citations |-> <<>>],
      [parses |-> TRUE, nul |-> FALSE, isArray |-> FALSE, citations |-> <<>>] }
    \cup
    { [parses |-> TRUE, nul |-> FALSE, isArray |-> TRUE, citations |-> q] :
        q \in SeqsUpTo(CitationInputs \cup { NullCitation }, MaxCitations) }

NoCiteResponse == [status |-> 0, citations |-> <<>>, error |-> ""]

CiteInit ==
    /\ ctPc = "idle"
    /\ ctReq \in CiteRequests
    /\ ctProbe = <<>>
    /\ ctOut = <<>>
    /\ ctDone = <<>>
    /\ ctResp = NoCiteResponse

CiteIdle ==
    /\ ctPc = "off"
    /\ ctReq = [parses |-> FALSE, nul |-> FALSE, isArray |-> FALSE, citations |-> <<>>]
    /\ ctProbe = <<>>
    /\ ctOut = <<>>
    /\ ctDone = <<>>
    /\ ctResp = NoCiteResponse

\* const { citations } = await req.json(): a body that is not JSON, or JSON
\* null, throws into the catch.
CiteRejectBody ==
    /\ ctPc = "idle"
    /\ ~ctReq.parses \/ ctReq.nul
    /\ ctPc' = "responded"
    /\ ctResp' = [status |-> 500, citations |-> <<>>,
                  error |-> IF ctReq.parses THEN "TypeError" ELSE "SyntaxError"]
    /\ UNCHANGED <<ctReq, ctProbe, ctOut, ctDone>>
    /\ UNCHANGED notCt

\* if (!citations || !Array.isArray(citations)) return 400
CiteRejectNotArray ==
    /\ ctPc = "idle"
    /\ ctReq.parses /\ ~ctReq.nul /\ ~ctReq.isArray
    /\ ctPc' = "responded"
    /\ ctResp' = [status |-> 400, citations |-> <<>>, error |-> "Citations array is required"]
    /\ UNCHANGED <<ctReq, ctProbe, ctOut, ctDone>>
    /\ UNCHANGED notCt

\* The indexes, in increasing order, of the probes that resolved without a fetch.
RECURSIVE ResolvedAtStart(_, _)
ResolvedAtStart(probes, i) ==
    IF i > Len(probes) THEN <<>>
    ELSE (IF probes[i].pc = "done" THEN <<i>> ELSE <<>>) \o ResolvedAtStart(probes, i + 1)

\* citations.map(async ...): every callback runs to its first await. A null
\* element throws on citation.url and rejects Promise.all, so the catch
\* answers 500; a rejected url resolves without a fetch; every other probe
\* arms its 5 s abort timer and issues its fetch.
CiteStartProbes ==
    /\ ctPc = "idle"
    /\ ctReq.parses /\ ~ctReq.nul /\ ctReq.isArray
    /\ LET cs == ctReq.citations
           probes == [i \in DOMAIN cs |->
                        IF cs[i].nul
                        THEN [pc |-> "threw", timer |-> FALSE, fetched |-> FALSE,
                              outcome |-> "none", code |-> 0, result |-> Unreachable]
                        ELSE IF UrlRejected(cs[i].url)
                             THEN [pc |-> "done", timer |-> FALSE, fetched |-> FALSE,
                                   outcome |-> "guard", code |-> 0, result |-> Unreachable]
                             ELSE [pc |-> "fetching", timer |-> TRUE, fetched |-> TRUE,
                                   outcome |-> "none", code |-> 0, result |-> Unreachable]]
       IN  /\ ctProbe' = probes
           /\ ctOut' = [i \in DOMAIN cs |->
                          IF probes[i].pc = "done" THEN Reconcile(cs[i], Unreachable)
                          ELSE cs[i]]
           /\ ctDone' = ResolvedAtStart(probes, 1)
           /\ IF \E i \in DOMAIN cs : cs[i].nul
              THEN /\ ctPc' = "responded"
                   /\ ctResp' = [status |-> 500, citations |-> <<>>, error |-> "TypeError"]
              ELSE /\ ctPc' = "probing"
                   /\ ctResp' = ctResp
    /\ UNCHANGED ctReq
    /\ UNCHANGED notCt

\* checkUrl returns `result` for citation i and its callback resolves.
ProbeResolves(i, outcome, code, result, timer) ==
    /\ ctProbe' = [ctProbe EXCEPT ![i] = [pc |-> "done", timer |-> timer,
                                           fetched |-> ctProbe[i].fetched,
                                           outcome |-> outcome, code |-> code,
                                           result |-> result]]
    /\ ctOut' = [ctOut EXCEPT ![i] = Reconcile(ctReq.citations[i], result)]
    /\ ctDone' = Append(ctDone, i)
    /\ UNCHANGED <<ctPc, ctReq, ctResp>>
    /\ UNCHANGED notCt

\* The fetch of probe i resolves with a 2xx response: the timer is cleared
\* and the body is awaited.
CiteFetchOk ==
    \E i \in DOMAIN ctProbe :
        /\ ctProbe[i].pc = "fetching"
        /\ ctProbe' = [ctProbe EXCEPT ![i] = [pc |-> "reading", timer |-> FALSE,
                                               fetched |-> TRUE, outcome |-> "ok",
                                               code |-> 200, result |-> Unreachable]]
        /\ UNCHANGED <<ctPc, ctReq, ctOut, ctDone, ctResp>>
        /\ UNCHANGED notCt

\* The fetch of probe i resolves with a non-2xx response.
CiteFetchNotOk ==
    \E i \in DOMAIN ctProbe :
        /\ ctProbe[i].pc = "fetching"
        /\ \E status \in NotOkStatuses :
              ProbeResolves(i, "notOk", status, ProbeResult(status, NoBody), FALSE)

\* The fetch of probe i rejects (DNS failure, connection refused): the catch
\* of checkUrl answers; the timer stays armed.
CiteFetchFails ==
    \E i \in DOMAIN ctProbe :
        /\ ctProbe[i].pc = "fetching"
        /\ ProbeResolves(i, "rejected", 0, Unreachable, ctProbe[i].timer)

\* The 5 s timer of probe i fires while its fetch is pending: abort.
CiteTimerFires ==
    \E i \in DOMAIN ctProbe :
        /\ ctProbe[i].pc = "fetching"
        /\ ctProbe[i].timer
        /\ ProbeResolves(i, "aborted", 0, Unreachable, FALSE)

\* The body of probe i's 2xx response arrives.
CiteBodyArrives ==
    \E i \in DOMAIN ctProbe :
        /\ ctProbe[i].pc = "reading"
        /\ \E body \in PageBodies :
              ProbeResolves(i, "ok", 200, ProbeResult(200, body), FALSE)

\* Reading the body of probe i's response fails.
CiteBodyFails ==
    \E i \in DOMAIN ctProbe :
        /\ ctProbe[i].pc = "reading"
        /\ ProbeResolves(i, "bodyFailed", 200, Unreachable, FALSE)

\* The array built from the results in the order the callbacks resolved.
ResponseCitations_CompletionOrder(outs, order) ==
    [k \in DOMAIN outs |-> IF k \in DOMAIN order THEN outs[order[k]] ELSE outs[k]]

\* The array Promise.all resolves with: the callbacks' values by index,
\* whatever the order they resolved in.
ResponseCitations(outs, order) == outs

\* Promise.all resolves: every callback has resolved.
CiteRespond ==
    /\ ctPc = "probing"
    /\ \A i \in DOMAIN ctProbe : ctProbe[i].pc = "done"
    /\ ctPc' = "responded"
    /\ ctResp' = [status |-> 200, citations |-> ResponseCitations(ctOut, ctDone), error |-> ""]
    /\ UNCHANGED <<ctReq, ctProbe, ctOut, ctDone>>
    /\ UNCHANGED notCt

CiteNext ==
    \/ CiteRejectBody
    \/ CiteRejectNotArray
    \/ CiteStartProbes
    \/ CiteFetchOk
    \/ CiteFetchNotOk
    \/ CiteFetchFails
    \/ CiteTimerFires
    \/ CiteBodyArrives
    \/ CiteBodyFails
    \/ CiteRespond

(***************************************************************************)
(* The dashboard's handleVerifyCitations: every run sends result.citations *)
(* to verify-citations and stores the answer back into the result.         *)
(***************************************************************************)
NoRun == [done |-> FALSE, results |-> <<>>, repeat |-> FALSE]

\* The citations verify-citations answers with when checkUrl returns
\* results[i] for citation i.
VerifiedCitations(citations, results) ==
    [i \in DOMAIN citations |-> Reconcile(citations[i], results[i])]

ReverifyInit ==
    /\ rvOrig \in SeqsUpTo(CitationInputs, MaxReverified)
    /\ rvCitations = rvOrig
    /\ rvLast = NoRun

ReverifyIdle ==
    /\ rvOrig = <<>>
    /\ rvCitations = <<>>
    /\ rvLast = NoRun

AllResults == UNION { PossibleResults(c.url) : c \in CitedSources }

\* handleVerifyCitations, answered: setResult(prev => {...prev, citations}).
ReverifyCitations ==
    /\ rvCitations # <<>>
    /\ \E results \in [DOMAIN rvCitations -> AllResults] :
          /\ \A i \in DOMAIN rvCitations : results[i] \in PossibleResults(rvCitations[i].url)
          /\ rvCitations' = VerifiedCitations(rvCitations, results)
          /\ rvLast' = [done |-> TRUE, results |-> results,
                         repeat |-> rvLast.done /\ rvLast.results = results]
    /\ UNCHANGED rvOrig
    /\ UNCHANGED notRv

\* handleVerifyCitations, failed (the invocation returned an error): a
\* toast, and the result stays as it is.
ReverifyFails ==
    /\ rvCitations # <<>>
    /\ UNCHANGED rvVars
    /\ UNCHANGED notRv

ReverifyNext == ReverifyCitations \/ ReverifyFails

(***************************************************************************)
(* detect-ai: the handler.  The text it sends is text.substring(0, 4000);  *)
(* the texts of the model are shorter, and the prompt is not modelled.     *)
(***************************************************************************)
SUnableToDetermine ==
    <<"U", "n", "a", "b", "l", "e", " ", "t", "o", " ", "d", "e", "t", "e",
      "r", "m", "i", "n", "e", " ", "A", "I", " ", "a", "u", "t", "h", "o",
      "r", "s", "h", "i", "p">>

SFailedToParse ==
    <<"F", "a", "i", "l", "e", "d", " ", "t", "o", " ", "p", "a", "r", "s",
      "e", " ", "A", "I", " ", "a", "n", "a", "l", "y", "s", "i", "s">>

\* The default payload with confidence 0.
DefaultDetection_NoConfidence ==
    JObj([isAiGenerated |-> JBool(FALSE), confidence |-> JNum(0),
          indicators |-> JArr(<<>>), analysis |-> JStr(SUnableToDetermine),
          error |-> JStr(SFailedToParse)])

\* The payload the handler answers with when the completion does not parse.
DefaultDetection ==
    JObj([isAiGenerated |-> JBool(FALSE), confidence |-> JNum(50),
          indicators |-> JArr(<<>>), analysis |-> JStr(SUnableToDetermine),
          error |-> JStr(SFailedToParse)])

\* JSON values the completion parses to.
DetectBodies ==
    { JNull, JNum(5) }
    \cup
    { JObj([isAiGenerated |-> JBool(b), confidence |-> JNum(c),
            indicators |-> JArr(q), analysis |-> JStr(SNote)]) :
        b \in BOOLEAN, c \in { 0, 87, 150 },
        q \in { <<>>, <<JObj([type |-> JStr(<<"a", "i">>), description |-> JStr(SNote)])>> } }

\* How the gateway call can end: the fetch rejects; a non-2xx response; a
\* 2xx response whose body is not JSON; a completion without content; content
\* that does not parse; content that parses.
DetectOutcomes ==
    { [kind |-> k, status |-> 0, body |-> JUndef, message |-> ""] :
        k \in { "networkError", "badJson", "noContent", "unparsable" } }
    \cup
    { [kind |-> "non2xx", status |-> st, body |-> JUndef, message |-> ""] :
        st \in { 429, 402, 503 } }
    \cup
    { [kind |-> "parsed", status |-> 200, body |-> b, message |-> ""] : b \in DetectBodies }

NoDetectResponse == [status |-> 0, error |-> "", result |-> JUndef]

\* The response answering 500 to every failure of the gateway call.
DetectResponse_Generic500(out) ==
    CASE out.kind \in { "networkError", "non2xx", "badJson", "noContent" } ->
            [status |-> 500, error |-> "AI gateway error", result |-> JUndef]
      [] out.kind = "unparsable" ->
            [status |-> 200, error |-> "", result |-> DefaultDetection]
      [] OTHER -> [status |-> 200, error |-> "", result |-> out.body]

\* The response of the handler once the gateway call has ended as `out`.
DetectResponse(out) ==
    CASE out.kind = "networkError" ->
            [status |-> 500, error |-> "fetch failed", result |-> JUndef]
      [] out.kind = "non2xx" /\ out.status = 429 ->
            [status |-> 429, error |-> "Rate limit exceeded. Please try again in a moment.",
             result |-> JUndef]
      [] out.kind = "non2xx" /\ out.status = 402 ->
            [status |-> 402, error |-> "AI credits exhausted. Please add credits to continue.",
             result |-> JUndef]
      [] out.kind = "non2xx" /\ out.status \notin { 429, 402 } ->
            [status |-> 500, error |-> "AI gateway error: " \o ToString(out.status),
             result |-> JUndef]
      [] out.kind = "badJson" ->
            [status |-> 500, error |-> "SyntaxError", result |-> JUndef]
      [] out.kind = "noContent" ->
            [status |-> 500, error |-> "No response from AI", result |-> JUndef]
      [] out.kind = "unparsable" ->
            [status |-> 200, error |-> "", result |-> DefaultDetection]
      [] OTHER -> [status |-> 200, error |-> "", result |-> out.body]

DetectInit ==
    /\ dtPc = "idle"
    /\ dtReq \in VerifyRequests
    /\ dtApiKey \in BOOLEAN
    /\ dtCalls = 0
    /\ dtOut = NoOutcome
    /\ dtResp = NoDetectResponse

DetectIdle ==
    /\ dtPc = "off"
    /\ dtReq = [parses |-> FALSE, json |-> JUndef]
    /\ dtApiKey = FALSE
    /\ dtCalls = 0
    /\ dtOut = NoOutcome
    /\ dtResp = NoDetectResponse

\* const { text } = await req.json(): a body that is not JSON, or JSON null,
\* throws into the catch.
DetectRejectBody ==
    /\ dtPc = "idle"
    /\ ~dtReq.parses \/ Nullish(dtReq.json)
    /\ dtPc' = "responded"
    /\ dtResp' = [status |-> 500,
                  error |-> IF dtReq.parses THEN "TypeError" ELSE "SyntaxError",
                  result |-> JUndef]
    /\ UNCHANGED <<dtReq, dtApiKey, dtCalls, dtOut>>
    /\ UNCHANGED notDt

\* if (!text || typeof text !== "string") return 400
DetectRejectText ==
    /\ dtPc = "idle"
    /\ dtReq.parses /\ ~Nullish(dtReq.json)
    /\ LET text == Get(dtReq.json, "text")
       IN  ~Truthy(text) \/ text.k # "str"
    /\ dtPc' = "responded"
    /\ dtResp' = [status |-> 400, error |-> "Text is required", result |-> JUndef]
    /\ UNCHANGED <<dtReq, dtApiKey, dtCalls, dtOut>>
    /\ UNCHANGED notDt

\* A valid text: without LOVABLE_API_KEY the handler throws into the catch,
\* with it the gateway fetch is issued and awaited.
DetectCallAi ==
    /\ dtPc = "idle"
    /\ dtReq.parses /\ ~Nullish(dtReq.json)
    /\ LET text == Get(dtReq.json, "text")
       IN  Truthy(text) /\ text.k = "str"
    /\ IF dtApiKey
       THEN /\ dtPc' = "ai"
            /\ dtCalls' = dtCalls + 1
            /\ dtResp' = dtResp
       ELSE /\ dtPc' = "responded"
            /\ dtCalls' = dtCalls
            /\ dtResp' = [status |-> 500, error |-> "LOVABLE_API_KEY is not configured",
                          result |-> JUndef]
    /\ UNCHANGED <<dtReq, dtApiKey, dtOut>>
    /\ UNCHANGED notDt

\* The gateway call ends and the response is sent.
DetectAiEnds ==
    /\ dtPc = "ai"
    /\ \E out \in DetectOutcomes :
          /\ dtOut' = out
          /\ dtResp' = DetectResponse(out)
    /\ dtPc' = "responded"
    /\ UNCHANGED <<dtReq, dtApiKey, dtCalls>>
    /\ UNCHANGED notDt

DetectNext ==
    \/ DetectRejectBody
    \/ DetectRejectText
    \/ DetectCallAi
    \/ DetectAiEnds

(***************************************************************************)
(* The client: the dashboard (handleVerify, handleVerifyCitations,         *)
(* handleLoadFromHistory, the verification_history table) and comparison   *)
(* mode (handleCompare).  A handler is split where it awaits; the fields   *)
(* hallucinationRisk, hallucinationRiskReason and analysisSummary are      *)
(* copied through unchanged and are left out, as are sourceUrl and the     *)
(* toasts.                                                                 *)
(***************************************************************************)
MaxHistory == 1

maxCharacters == 5000

\* No call of handleVerify in progress.
NoCall ==
    [pc |-> "none", text |-> <<>>,
     verifyResponse |-> [error |-> JNull, data |-> JNull],
     aiDetectResponse |-> [error |-> JNull, data |-> JNull],
     verificationResult |-> JNull]

\* What Promise.all of the two invocations can resolve with for a text:
\* [verifyResponse, aiDetectResponse].  verify-content answers with a result
\* of the backend branch (trustScore 0 or 82, the text's claim and citation),
\* with the ai-only-fallback result, or with a non-2xx status; detect-ai
\* answers with a detection or with a non-2xx status.
InvokeResults(text) ==
    LET claims == JArr(<<JObj([text |-> JStr(text), status |-> JStr(KwVerified)])>>)
        citations ==
            JArr(IF text = TextEiffel
                 THEN <<Citation("Wikipedia", JStr(UrlWiki), "valid", "cited in the text")>>
                 ELSE <<Citation("Blog", JStr(SUnknownUrl), "fake", "cited in the text")>>)
        non2xx == JObj([message |-> "Edge Function returned a non-2xx status code"])
        verify ==
            { [error |-> JNull,
               data |-> JObj([trustScore |-> JNum(ts), claims |-> claims,
                              citations |-> citations, source |-> "backend+ai"])] :
                ts \in { 0, 82 } }
            \cup
            { [error |-> JNull,
               data |-> JObj([error |-> JStr(<<"B", "a", "c", "k", "e", "n", "d", " ",
                                              "v", "e", "r", "i", "f", "i", "c", "a",
                                              "t", "i", "o", "n", " ", "f", "a", "i",
                                              "l", "e", "d">>),
                              trustScore |-> JNum(0), claims |-> JArr(<<>>),
                              citations |-> JArr(<<>>), source |-> "ai-only-fallback"])],
              [error |-> non2xx, data |-> JNull] }
        aiDetect ==
            { [error |-> JNull,
               data |-> JObj([isAiGenerated |-> JBool(TRUE), confidence |-> JNum(90)])],
              [error |-> non2xx, data |-> JNull] }
    IN  { [verifyResponse |-> v, aiDetectResponse |-> a] : v \in verify, a \in aiDetect }

\* verificationResult of handleVerify.
verificationResult(verifyResponse, aiDetectResponse) ==
    JObj([trustScore |-> Or(Get(verifyResponse.data, "trustScore"), JNum(50)),
          claims |-> Or(Get(verifyResponse.data, "claims"), JArr(<<>>)),
          citations |-> Or(Get(verifyResponse.data, "citations"), JArr(<<>>)),
          source |-> Get(verifyResponse.data, "source"),
          aiDetection |->
              IF Truthy(aiDetectResponse.data) /\ ~Truthy(aiDetectResponse.error)
              THEN JObj([isAiGenerated |->
                             Or(Get(aiDetectResponse.data, "isAiGenerated"), JBool(FALSE)),
                         confidence |->
                             Or(Get(aiDetectResponse.data, "confidence"), JNum(50))])
              ELSE JUndef])

\* What handleCompare stores for one response.
ComparisonResult(response) ==
    JObj([trustScore |-> Or(Get(response.data, "trustScore"), JNum(50)),
          claims |-> Or(Get(response.data, "claims"), JArr(<<>>)),
          citations |-> Or(Get(response.data, "citations"), JArr(<<>>))])

\* The state after the first render, with an empty verification_history.
DashInit ==
    /\ dbInputText = <<>>
    /\ dbIsVerifying = FALSE
    /\ dbIsVerifyingCitations = FALSE
    /\ dbResult = JNull
    /\ dbShowResults = FALSE
    /\ dbRefreshTrigger = 0
    /\ dbVerifyCall = NoCall
    /\ dbCiteCall = <<>>
    /\ dbHistory = <<>>
    /\ cmpResultA = JNull
    /\ cmpResultB = JNull

\* The Textarea's onChange: the user edits the text, at any time.
setInputText ==
    /\ \E text \in { <<" ">>, TextEiffel, TextMoon } :
          /\ text # dbInputText
          /\ dbInputText' = text
    /\ UNCHANGED <<dbIsVerifying, dbIsVerifyingCitations, dbResult, dbShowResults,
                   dbRefreshTrigger, dbVerifyCall, dbCiteCall, dbHistory,
                   cmpResultA, cmpResultB>>
    /\ UNCHANGED notDb

\* handleVerify up to its await, run from the Verify button, which is
\* disabled for a blank text, a text over maxCharacters and while isVerifying.
handleVerify ==
    /\ \E i \in DOMAIN dbInputText : dbInputText[i] # " "
    /\ ~dbIsVerifying
    /\ Len(dbInputText) <= maxCharacters
    /\ Len(dbHistory) < MaxHistory
    /\ dbIsVerifying' = TRUE
    /\ dbShowResults' = FALSE
    /\ dbVerifyCall' = [NoCall EXCEPT !.pc = "invoked", !.text = dbInputText]
    /\ UNCHANGED <<dbInputText, dbIsVerifyingCitations, dbResult, dbRefreshTrigger,
                   dbCiteCall, dbHistory, cmpResultA, cmpResultB>>
    /\ UNCHANGED notDb

\* Promise.all of the two invocations resolves.
VerifySettles ==
    /\ dbVerifyCall.pc = "invoked"
    /\ \E r \in InvokeResults(dbVerifyCall.text) :
          dbVerifyCall' = [dbVerifyCall EXCEPT
                              !.pc = "settled",
                              !.verifyResponse = r.verifyResponse,
                              !.aiDetectResponse = r.aiDetectResponse]
    /\ UNCHANGED <<dbInputText, dbIsVerifying, dbIsVerifyingCitations, dbResult,
                   dbShowResults, dbRefreshTrigger, dbCiteCall, dbHistory,
                   cmpResultA, cmpResultB>>
    /\ UNCHANGED notDb

\* handleVerify from the responses to the await of saveToHistory, or through
\* catch and finally when it throws on verifyResponse.error or on
\* verifyResponse.data.error.
VerifyContinues ==
    /\ dbVerifyCall.pc = "settled"
    /\ IF \/ Truthy(dbVerifyCall.verifyResponse.error)
          \/ Truthy(Get(dbVerifyCall.verifyResponse.data, "error"))
       THEN /\ dbIsVerifying' = FALSE
            /\ dbVerifyCall' = NoCall
            /\ UNCHANGED <<dbResult, dbShowResults>>
       ELSE LET r == verificationResult(dbVerifyCall.verifyResponse,
                                        dbVerifyCall.aiDetectResponse)
            IN  /\ dbResult' = r
                /\ dbShowResults' = TRUE
                /\ dbVerifyCall' = [dbVerifyCall EXCEPT !.pc = "saving",
                                                        !.verificationResult = r]
                /\ UNCHANGED dbIsVerifying
    /\ UNCHANGED <<dbInputText, dbIsVerifyingCitations, dbRefreshTrigger, dbCiteCall,
                   dbHistory, cmpResultA, cmpResultB>>
    /\ UNCHANGED notDb

\* The insert of saveToHistory ends, accepted or refused, and handleVerify
\* runs to its end.  The row is built from the text and the result the
\* handler was called with.
saveToHistory ==
    /\ dbVerifyCall.pc = "saving"
    /\ \E accepted \in BOOLEAN :
          LET text == dbVerifyCall.text
              r == dbVerifyCall.verificationResult
              row == [text_preview |->
                          substring0(text, 200) \o (IF Len(text) > 200
                                                    THEN <<".", ".", ".">> ELSE <<>>),
                      full_text |-> text,
                      trust_score |-> Get(r, "trustScore"),
                      claims |-> Get(r, "claims"),
                      citations |-> Get(r, "citations")]
          IN  IF accepted
              THEN /\ dbHistory' = Append(dbHistory, row)
                   /\ dbRefreshTrigger' = dbRefreshTrigger + 1
              ELSE UNCHANGED <<dbHistory, dbRefreshTrigger>>
    /\ dbIsVerifying' = FALSE
    /\ dbVerifyCall' = NoCall
    /\ UNCHANGED <<dbInputText, dbIsVerifyingCitations, dbResult, dbShowResults,
                   dbCiteCall, cmpResultA, cmpResultB>>
    /\ UNCHANGED notDb

\* handleVerifyCitations up to its await, run from the Verify URLs button,
\* which is rendered with the results when the result has citations and is
\* disabled while isVerifyingCitations.
handleVerifyCitations ==
    /\ dbShowResults
    /\ Truthy(dbResult)
    /\ Get(dbResult, "citations").v # <<>>
    /\ ~dbIsVerifyingCitations
    /\ dbIsVerifyingCitations' = TRUE
    /\ dbCiteCall' = Get(dbResult, "citations").v
    /\ UNCHANGED <<dbInputText, dbIsVerifying, dbResult, dbShowResults,
                   dbRefreshTrigger, dbVerifyCall, dbHistory,
                   cmpResultA, cmpResultB>>
    /\ UNCHANGED notDb

\* The invocation of verify-citations resolves and handleVerifyCitations
\* runs to its end: with an error it throws, otherwise it stores
\* data.citations into the result that is current now.
VerifyCitationsResolves ==
    /\ dbIsVerifyingCitations
    /\ \/ UNCHANGED dbResult
       \/ \E results \in [DOMAIN dbCiteCall -> AllResults] :
             /\ \A i \in DOMAIN dbCiteCall :
                   results[i] \in PossibleResults(dbCiteCall[i].url)
             /\ dbResult' =
                   IF Truthy(dbResult)
                   THEN JObj([dbResult.v EXCEPT
                                 !.citations =
                                     JArr(VerifiedCitations(dbCiteCall, results))])
                   ELSE dbResult
    /\ dbIsVerifyingCitations' = FALSE
    /\ dbCiteCall' = <<>>
    /\ UNCHANGED <<dbInputText, dbIsVerifying, dbShowResults, dbRefreshTrigger,
                   dbVerifyCall, dbHistory, cmpResultA, cmpResultB>>
    /\ UNCHANGED notDb

\* handleLoad of VerificationHistory and handleLoadFromHistory, run from a
\* click on a listed record.
handleLoadFromHistory ==
    /\ \E i \in DOMAIN dbHistory :
          LET item == dbHistory[i]
          IN  /\ dbInputText' = item.full_text
              /\ dbResult' = JObj([trustScore |-> item.trust_score,
                                   claims |-> item.claims,
                                   citations |-> item.citations])
    /\ dbShowResults' = TRUE
    /\ UNCHANGED <<dbIsVerifying, dbIsVerifyingCitations, dbRefreshTrigger,
                   dbVerifyCall, dbCiteCall, dbHistory, cmpResultA, cmpResultB>>
    /\ UNCHANGED notDb

\* handleCompare, from the click to its end, for a text A and a text B.
handleCompare ==
    /\ \E textA \in { <<>>, TextEiffel }, textB \in { <<" ">>, TextMoon } :
          IF \/ \A i \in DOMAIN textA : textA[i] = " "
             \/ \A i \in DOMAIN textB : textB[i] = " "
          THEN UNCHANGED <<cmpResultA, cmpResultB>>
          ELSE \E responseA \in { r.verifyResponse : r \in InvokeResults(textA) },
                  responseB \in { r.verifyResponse : r \in InvokeResults(textB) } :
                  IF Truthy(responseA.error) \/ Truthy(responseB.error)
                  THEN /\ cmpResultA' = JNull
                       /\ cmpResultB' = JNull
                  ELSE /\ cmpResultA' = ComparisonResult(responseA)
                       /\ cmpResultB' = ComparisonResult(responseB)
    /\ UNCHANGED <<dbInputText, dbIsVerifying, dbIsVerifyingCitations, dbResult,
                   dbShowResults, dbRefreshTrigger, dbVerifyCall, dbCiteCall,
                   dbHistory>>
    /\ UNCHANGED notDb

\* getScoreDiff of comparison mode: the difference it renders, null when a
\* result is missing.
getScoreDiff ==
    IF ~Truthy(cmpResultA) \/ ~Truthy(cmpResultB)
    THEN JNull
    ELSE JNum(Get(cmpResultB, "trustScore").v - Get(cmpResultA, "trustScore").v)

DashNext ==
    \/ setInputText
    \/ handleVerify
    \/ VerifySettles
    \/ VerifyContinues
    \/ saveToHistory
    \/ handleVerifyCitations
    \/ VerifyCitationsResolves
    \/ handleLoadFromHistory
    \/ handleCompare

(***************************************************************************)
(* Specifications.                                                         *)
(***************************************************************************)
InitNorm == NormInit /\ VerifyIdle /\ CiteIdle /\ ReverifyIdle /\ DetectIdle /\ DashInit

SpecNorm == InitNorm /\ [][NormNext]_vars

InitVerify == VerifyInit /\ NormIdle /\ CiteIdle /\ ReverifyIdle /\ DetectIdle /\ DashInit

SpecVerify == InitVerify /\ [][VerifyNext]_vars

InitCite == CiteInit /\ NormIdle /\ VerifyIdle /\ ReverifyIdle /\ DetectIdle /\ DashInit

SpecCite == InitCite /\ [][CiteNext]_vars

\* What the runtime guarantees: the handler's own steps are taken, and an
\* armed timer fires.  Nothing makes a remote server answer a fetch or
\* finish sending a body.
SpecCiteFair ==
    /\ SpecCite
    /\ WF_vars(CiteRejectBody \/ CiteRejectNotArray \/ CiteStartProbes \/ CiteRespond)
    /\ WF_vars(CiteTimerFires)

InitReverify == ReverifyInit /\ NormIdle /\ VerifyIdle /\ CiteIdle /\ DetectIdle /\ DashInit

SpecReverify == InitReverify /\ [][ReverifyNext]_vars

InitDetect == DetectInit /\ NormIdle /\ VerifyIdle /\ CiteIdle /\ ReverifyIdle /\ DashInit

\* One request to one of the three operations.
InitRequest == InitVerify \/ InitCite \/ InitDetect

RequestNext == VerifyNext \/ CiteNext \/ DetectNext

SpecRequest == InitRequest /\ [][RequestNext]_vars

InitDash == DashInit /\ NormIdle /\ VerifyIdle /\ CiteIdle /\ ReverifyIdle /\ DetectIdle

\* The client, from its first render on.
SpecDash == InitDash /\ [][DashNext]_vars

(***************************************************************************)
(* Properties of verify-content.                                           *)
(***************************************************************************)
IsNum(x, n) == x.k = "num" /\ x.v = n

IsStr(x, s) == x.k = "str" /\ x.v = s

\* The backend call failed: a network error, a non-2xx response or a body
\* that does not parse.
BackendFailed == vcBackendOut.kind \in { "networkError", "non2xx", "unparsable" }

\* Both upstream calls were made and have ended.
BothCallsEnded ==
    vcPc = "responded" /\ vcBackendOut.kind # "none" /\ vcAiOut.kind # "none"

ZeroFallback(r) ==
    /\ IsNum(r.trustScore, 0)
    /\ r.claims = <<>>
    /\ r.citations = <<>>
    /\ r.source = "ai-only-fallback"

\* C1: whenever the backend call failed, whatever the outcome of the
\* AI-insight call, the response is a result with trustScore 0, no claims,
\* no citations and source "ai-only-fallback"; and every result whose
\* source is "ai-only-fallback" has trustScore 0 and no claims or citations.
C1_FallbackInvariant ==
    /\ (BothCallsEnded /\ BackendFailed) =>
          (vcResp.status = 200 /\ vcResp.hasResult /\ ZeroFallback(vcResp.final))
    /\ (vcResp.hasResult /\ vcResp.final.source = "ai-only-fallback") =>
          ZeroFallback(vcResp.final)

\* Scenario 2: the backend call throws a network error, the AI call returns
\* hallucinationRisk "High", and the fallback result carries that risk.
C1_Witness ==
    /\ vcPc = "responded"
    /\ vcBackendOut.kind = "networkError"
    /\ vcAiOut.kind = "parsed"
    /\ vcResp.hasResult
    /\ vcResp.final.source = "ai-only-fallback"
    /\ IsNum(vcResp.final.trustScore, 0)
    /\ IsStr(vcResp.final.hallucinationRisk, SHigh)

\* C2: for every request with a valid text and every behaviour of the two
\* upstream calls, the response is a VerificationResult (status 200, source
\* "backend+ai" or "ai-only-fallback"), never the error-only 500.
C2_NoExceptionEscapes ==
    BothCallsEnded =>
        /\ vcResp.status = 200
        /\ vcResp.hasResult
        /\ vcResp.final.source \in { "backend+ai", "ai-only-fallback" }

\* C3 as stated: a result comes from the fallback branch if and only if the
\* backend call failed.
C3_FallbackIffFailed ==
    (vcPc = "responded" /\ vcResp.hasResult) =>
        (vcResp.final.source = "ai-only-fallback" <=> BackendFailed)

\* C3, amended: a result comes from the fallback branch if and only if
\* backendResult is falsy, that is the backend call failed or its 2xx body
\* parsed to a falsy JSON value (null, false, 0 or ""), and from the backend
\* branch if and only if the body parsed to a truthy value; the condition
\* reads nothing of the AI-insight call.
C3_FallbackIffFalsy ==
    (vcPc = "responded" /\ vcResp.hasResult) =>
        /\ vcResp.final.source = "ai-only-fallback" <=>
              (BackendFailed \/ (vcBackendOut.kind = "ok" /\ ~Truthy(vcBackendOut.body)))
        /\ vcResp.final.source = "backend+ai" <=>
              (vcBackendOut.kind = "ok" /\ Truthy(vcBackendOut.body))

\* A 2xx backend response whose body is the JSON value 0, with a parsed AI
\* result, answered from the fallback branch.
C3_Witness ==
    /\ vcPc = "responded"
    /\ vcBackendOut.kind = "ok"
    /\ IsNum(vcBackendOut.body, 0)
    /\ vcAiOut.kind = "parsed"
    /\ vcResp.hasResult
    /\ vcResp.final.source = "ai-only-fallback"
    /\ vcResp.final.error = "Backend verification failed"

\* The factual verdicts of a response: whether it is a result, and the
\* result's trustScore, claims (text, status, note) and citations.
FactualView(resp) ==
    [hasResult |-> resp.hasResult,
     trustScore |-> resp.final.trustScore,
     claims |-> [i \in DOMAIN resp.final.claims |->
                    [text |-> resp.final.claims[i].text,
                     status |-> resp.final.claims[i].status,
                     note |-> resp.final.claims[i].note]],
     citations |-> resp.final.citations]

\* C4: with the backend result present, the factual verdicts of the
\* response are those the same backend response gives when the AI-insight
\* call fails, whatever the AI-insight call returned.
C4_BackendSoleSource ==
    (BothCallsEnded /\ Truthy(vcBackendResult)) =>
        LET ref == FactualView(MergedResponse(vcBackendResult, vcBackendError, JNull))
            got == FactualView(vcResp)
        IN  /\ got.hasResult = ref.hasResult
            /\ got.hasResult => got = ref

(***************************************************************************)
(* Properties of the status normalizers.                                   *)
(***************************************************************************)
\* The raw status is a string, or is missing.
RawIsStringOrMissing == normRaw.k \in { "str", "undefined" }

\* C5: on every raw status that is a string, and on an empty or undefined
\* one, the normalizers do not throw and return one value of their enum;
\* empty or undefined input yields questionable and broken.
C5_NormalizersTotal ==
    /\ (RawIsStringOrMissing /\ normClaimOut # "pending") =>
          /\ normClaimOut \in ClaimStatuses
          /\ (~Truthy(normRaw) => normClaimOut = "questionable")
    /\ (RawIsStringOrMissing /\ normCitationOut # "pending") =>
          /\ normCitationOut \in CitationStatuses
          /\ (~Truthy(normRaw) => normCitationOut = "broken")

\* Both normalizers have run on an undefined status.
C5_Witness ==
    /\ normRaw = JUndef
    /\ normClaimOut = "questionable"
    /\ normCitationOut = "broken"

\* The keyword classes as the specification lists them.
ClaimPositive == { KwTrue, KwVerified, KwAccurate, KwCorrect }

ClaimNegative == { KwFalse, KwIncorrect, KwWrong, KwFake }

CitationPositive == { KwValid, KwExists, KwFound, KwWorking }

CitationFabrication == { KwFake, KwFabricated, KwNonexistent, KwFalse }

\* s holds kw at some position, letter case ignored.
ContainsIgnoringCase(s, kw) ==
    \E i \in 1..(Len(s) - Len(kw) + 1) :
        \A j \in 1..Len(kw) : LowerChar(s[i + j - 1]) = kw[j]

ContainsAny(s, kws) == \E kw \in kws : ContainsIgnoringCase(s, kw)

\* C6: a claim status holding a positive keyword maps to verified, otherwise
\* one holding a negative keyword maps to false, otherwise questionable; a
\* citation status holding a positive keyword maps to valid, otherwise one
\* holding a fabrication keyword maps to fake, otherwise broken.
C6_PriorityOrder ==
    /\ (normRaw.k = "str" /\ normClaimOut # "pending") =>
          normClaimOut =
              IF ContainsAny(normRaw.v, ClaimPositive) THEN "verified"
              ELSE IF ContainsAny(normRaw.v, ClaimNegative) THEN "false"
              ELSE "questionable"
    /\ (normRaw.k = "str" /\ normCitationOut # "pending") =>
          normCitationOut =
              IF ContainsAny(normRaw.v, CitationPositive) THEN "valid"
              ELSE IF ContainsAny(normRaw.v, CitationFabrication) THEN "fake"
              ELSE "broken"

\* "falseValid" holds a keyword of two classes for each normalizer's table
\* order to decide: the claim has no positive keyword and is false, the
\* citation is valid although "false" is a fabrication keyword.
C6_Witness ==
    /\ normRaw = JStr(KwFalse \o <<"V", "a", "l", "i", "d">>)
    /\ normClaimOut = "false"
    /\ normCitationOut = "valid"

\* C27: each keyword given alone normalizes to its own class: the positive
\* claim keywords to verified and the negative ones to false, the positive
\* citation keywords to valid and the fabrication ones to fake.
C27_KeywordAloneKeepsItsClass ==
    /\ (normClaimOut # "pending" /\ normRaw \in { JStr(w) : w \in ClaimPositive }) =>
          normClaimOut = "verified"
    /\ (normClaimOut # "pending" /\ normRaw \in { JStr(w) : w \in ClaimNegative }) =>
          normClaimOut = "false"
    /\ (normCitationOut # "pending" /\ normRaw \in { JStr(w) : w \in CitationPositive }) =>
          normCitationOut = "valid"
    /\ (normCitationOut # "pending" /\ normRaw \in { JStr(w) : w \in CitationFabrication }) =>
          normCitationOut = "fake"

(***************************************************************************)
(* Properties of verify-citations.                                         *)
(***************************************************************************)
\* The reconciliation rule for one citation, its probe result and what the
\* callback returned.
ReconciledAsSpecified(prior, result, out) ==
    IF prior.status = "broken" /\ result.exists
    THEN /\ out.status = "valid"
         /\ out.reason =
               "URL is accessible. Page title: \""
                   \o (IF result.title.has /\ result.title.text # ""
                       THEN result.title.text ELSE "Unknown")
                   \o "\""
    ELSE IF prior.status = "valid" /\ ~result.exists
         THEN /\ out.status = "broken"
              /\ out.reason =
                    IF result.status # 0
                    THEN "URL returned HTTP " \o ToString(result.status)
                    ELSE "URL is not accessible or does not exist"
         ELSE /\ out.status = prior.status
              /\ out.reason = prior.reason

\* C7: for every citation whose callback has resolved, status and reason
\* follow the reconciliation rule for its prior status and probe result.
C7_ReconciliationRule ==
    \A i \in DOMAIN ctProbe :
        ctProbe[i].pc = "done" =>
            ReconciledAsSpecified(ctReq.citations[i], ctProbe[i].result, ctOut[i])

\* Scenario 3 and its counterparts in one request: a broken citation whose
\* page answers 200 with title "Example Domain", and a valid one whose page
\* answers 404.
C7_Witness ==
    /\ ctPc = "responded"
    /\ ctResp.status = 200
    /\ Len(ctResp.citations) = 2
    /\ ctReq.citations[1].status = "broken"
    /\ ctResp.citations[1].status = "valid"
    /\ ctResp.citations[1].reason = "URL is accessible. Page title: \"Example Domain\""
    /\ ctReq.citations[2].status = "valid"
    /\ ctResp.citations[2].status = "broken"
    /\ ctResp.citations[2].reason = "URL returned HTTP 404"

\* C8: a citation that was fake keeps status fake and its reason after any
\* number of re-verification runs, whatever the probes returned; a citation
\* that was valid or broken is never fake.
C8_FakeNeverChanges ==
    \A i \in DOMAIN rvOrig :
        /\ rvOrig[i].status = "fake" =>
              /\ rvCitations[i].status = "fake"
              /\ rvCitations[i].reason = rvOrig[i].reason
        /\ rvOrig[i].status \in { "valid", "broken" } => rvCitations[i].status # "fake"

\* A fake citation whose url has been probed twice and found reachable.
C8_Witness ==
    /\ rvLast.repeat
    /\ \E i \in DOMAIN rvOrig :
          /\ rvOrig[i].status = "fake"
          /\ rvLast.results[i].exists
          /\ rvCitations[i].verified
          /\ rvCitations[i].status = "fake"

\* C9: a successful response holds as many citations as the request, in the
\* request's order: element i has the source and url of input element i and
\* verified = true.
C9_SameLengthSameOrder ==
    (ctPc = "responded" /\ ctResp.status = 200) =>
        /\ Len(ctResp.citations) = Len(ctReq.citations)
        /\ \A i \in DOMAIN ctReq.citations :
              /\ ctResp.citations[i].source = ctReq.citations[i].source
              /\ ctResp.citations[i].url = ctReq.citations[i].url
              /\ ctResp.citations[i].verified

\* Two citations of different sources whose probes completed in the reverse
\* of the input order.
C9_Witness ==
    /\ ctPc = "responded"
    /\ ctResp.status = 200
    /\ ctDone = <<2, 1>>
    /\ ctReq.citations[1].source = "Wikipedia"
    /\ ctReq.citations[2].source = "NASA"
    /\ ctResp.citations[1].source = "Wikipedia"
    /\ ctResp.citations[2].source = "NASA"

\* C10: a run in which checkUrl returns for every citation what it returned
\* in the run before leaves every citation's status and reason as that run
\* left them.
C10_Idempotent ==
    [][(rvLast.done /\ rvLast'.done /\ rvLast'.results = rvLast.results) =>
           \A i \in DOMAIN rvCitations :
               /\ rvCitations'[i].status = rvCitations[i].status
               /\ rvCitations'[i].reason = rvCitations[i].reason]_vars

\* A citation that one run turned from broken to valid, after the next run
\* has seen the same reachable page again.
C10_Witness ==
    /\ rvLast.repeat
    /\ \E i \in DOMAIN rvOrig :
          /\ rvOrig[i].status = "broken"
          /\ rvCitations[i].status = "valid"
          /\ rvLast.results[i].exists
          /\ rvCitations[i].reason = "URL is accessible. Page title: \"Example Domain\""

(***************************************************************************)
(* Properties of checkUrl.                                                 *)
(***************************************************************************)
\* The urls the probe is to reject at once: falsy, the sentinel "unknown",
\* or not starting with "http".
RejectedAtOnce(url) ==
    \/ ~Truthy(url)
    \/ /\ url.k = "str"
       /\ \/ url.v = <<"u", "n", "k", "n", "o", "w", "n">>
          \/ Len(url.v) < 4
          \/ SubSeq(url.v, 1, 4) # <<"h", "t", "t", "p">>

\* C11: for a url that is falsy, "unknown" or does not start with "http",
\* checkUrl issues no fetch and returns exists = false with status 0; a
\* valid citation with such a url is answered broken with reason "URL is
\* not accessible or does not exist".
C11_GuardRejectsWithoutFetch ==
    \A i \in DOMAIN ctProbe :
        (~ctReq.citations[i].nul /\ RejectedAtOnce(ctReq.citations[i].url)) =>
            /\ ~ctProbe[i].fetched
            /\ ctProbe[i].pc = "done"
            /\ ~ctProbe[i].result.exists
            /\ ctProbe[i].result.status = 0
            /\ ctReq.citations[i].status = "valid" =>
                  /\ ctOut[i].status = "broken"
                  /\ ctOut[i].reason = "URL is not accessible or does not exist"

\* A valid citation with url "unknown" answered broken, next to a citation
\* without scheme, neither fetched.
C11_Witness ==
    /\ ctPc = "responded"
    /\ ctResp.status = 200
    /\ Len(ctResp.citations) = 2
    /\ ctReq.citations[1].url = JStr(SUnknownUrl)
    /\ ctReq.citations[1].status = "valid"
    /\ ctResp.citations[1].status = "broken"
    /\ ctResp.citations[1].httpStatus = 0
    /\ ctReq.citations[2].url = JStr(UrlNoScheme)
    /\ ~ctProbe[1].fetched
    /\ ~ctProbe[2].fetched

\* C12: checkUrl always returns: a 2xx response whose body is read gives
\* exists = true, a non-2xx response gives exists = false with the response
\* status, and a rejected or aborted fetch or a failed body read gives
\* exists = false with status 0; no probe of a citation ends by throwing.
C12_ProbeClassifiesEveryOutcome ==
    \A i \in DOMAIN ctProbe :
        /\ ~ctReq.citations[i].nul => ctProbe[i].pc # "threw"
        /\ ctProbe[i].pc = "done" =>
              CASE ctProbe[i].outcome = "ok" ->
                      /\ ctProbe[i].result.exists
                      /\ ctProbe[i].result.status = ctProbe[i].code
                [] ctProbe[i].outcome = "notOk" ->
                      /\ ~ctProbe[i].result.exists
                      /\ ctProbe[i].result.status = ctProbe[i].code
                [] OTHER ->
                      /\ ~ctProbe[i].result.exists
                      /\ ctProbe[i].result.status = 0

\* One request with a 404 response and a body read that failed.
C12_Witness ==
    /\ ctPc = "responded"
    /\ ctResp.status = 200
    /\ Len(ctProbe) = 2
    /\ ctProbe[1].outcome = "notOk"
    /\ ctProbe[1].result.status = 404
    /\ ctProbe[2].outcome = "bodyFailed"
    /\ ctResp.citations[2].httpStatus = 0

\* C25: every probe that issued a fetch eventually returns a result, and
\* the request is eventually answered, whatever the remote servers do.
C25_EveryProbeReturns ==
    /\ <>(ctPc = "responded")
    /\ \A i \in 1..MaxCitations :
          []((IF i \in DOMAIN ctProbe
              THEN ctProbe[i].pc \in { "fetching", "reading" }
              ELSE FALSE)
                => <>(IF i \in DOMAIN ctProbe THEN ctProbe[i].pc = "done" ELSE FALSE))

(***************************************************************************)
(* Properties of the handlers' scheduling.                                 *)
(***************************************************************************)
\* C13: the AI-insight call is issued without waiting for the backend call:
\* while the backend fetch is in flight the AI fetch has been issued.
C13_AiIssuedWithoutWaiting ==
    vcPc = "backend" => \E k \in DOMAIN vcCalls : vcCalls[k] = "ai"

\* C14: for a request whose citations value is an array, no response is
\* sent while a probe of the request is in flight, and a 200 response holds
\* a result for every citation.
C14_WaitsForEveryProbe ==
    (ctPc = "responded" /\ ctReq.isArray) =>
        /\ \A i \in DOMAIN ctProbe : ctProbe[i].pc \notin { "fetching", "reading" }
        /\ ctResp.status = 200 => Len(ctResp.citations) = Len(ctReq.citations)

(***************************************************************************)
(* Properties of the handlers' input validation.                           *)
(***************************************************************************)
\* The body is a JSON value other than null whose text is missing, empty or
\* not a string.
TextInvalid(req) ==
    /\ req.parses
    /\ req.json.k # "null"
    /\ LET text == Get(req.json, "text")
       IN  text.k # "str" \/ text.v = <<>>

\* C15: a request to Verify or Detect AI whose text is missing, empty or not
\* a string, and a request to Verify Citations whose citations value is
\* missing or not an array, is answered 400 with an error, and at no time is
\* an upstream call or a URL probe issued for it.
C15_ValidationPrecedesWork ==
    /\ (vcPc # "off" /\ TextInvalid(vcReq)) =>
          /\ vcCalls = <<>>
          /\ vcPc = "responded" => (vcResp.status = 400 /\ vcResp.error # "")
    /\ (dtPc # "off" /\ TextInvalid(dtReq)) =>
          /\ dtCalls = 0
          /\ dtPc = "responded" => (dtResp.status = 400 /\ dtResp.error # "")
    /\ (ctPc # "off" /\ ctReq.parses /\ ~ctReq.nul /\ ~ctReq.isArray) =>
          /\ ctProbe = <<>>
          /\ ctPc = "responded" => (ctResp.status = 400 /\ ctResp.error # "")

\* Detect AI has answered 400 to a text that is a number.
C15_Witness ==
    /\ dtPc = "responded"
    /\ dtReq.json = JObj([text |-> JNum(5)])
    /\ dtResp.status = 400
    /\ dtResp.error = "Text is required"
    /\ dtCalls = 0

\* C16: a request whose body is not valid JSON, or is JSON null, is answered
\* with status 400 by each of the three operations.
C16_MalformedBodyIs400 ==
    /\ (vcPc = "responded" /\ (~vcReq.parses \/ vcReq.json.k = "null")) =>
          vcResp.status = 400
    /\ (ctPc = "responded" /\ (~ctReq.parses \/ ctReq.nul)) => ctResp.status = 400
    /\ (dtPc = "responded" /\ (~dtReq.parses \/ dtReq.json.k = "null")) =>
          dtResp.status = 400

(***************************************************************************)
(* Properties of the merged result.                                        *)
(***************************************************************************)
\* The response is a merged result.
Merged == vcPc = "responded" /\ vcResp.hasResult

\* The score the backend supplied, undefined when it supplied none.
SuppliedScore ==
    Coalesce(Get(vcBackendResult, "trustScore"), Get(vcBackendResult, "trust_score"))

\* C17: in every result trustScore is an integer in 0..100: 0 in the
\* fallback branch, the backend's score when it supplied one, 50 otherwise.
C17_TrustScoreInRange ==
    Merged =>
        /\ vcResp.final.trustScore.k = "num"
        /\ vcResp.final.trustScore.v \in 0..100
        /\ vcResp.final.source = "ai-only-fallback" => vcResp.final.trustScore.v = 0
        /\ vcResp.final.source = "backend+ai" =>
              vcResp.final.trustScore =
                  (IF Nullish(SuppliedScore) THEN JNum(50) ELSE SuppliedScore)

\* The AI result supplies a value for the field: it is an object and the
\* field holds a value that is not null, false, 0 or the empty string.
Supplies(aiResult, field) ==
    /\ aiResult.k = "obj"
    /\ field \in DOMAIN aiResult.v
    /\ aiResult.v[field].k \notin { "undefined", "null" }
    /\ aiResult.v[field] \notin { JBool(FALSE), JNum(0), JStr(<<>>) }

AiValueOr(field, default) ==
    IF Supplies(vcAiResult, field) THEN vcAiResult.v[field] ELSE JStr(default)

\* C18: in the backend branch hallucinationRisk, hallucinationRiskReason and
\* analysisSummary are the AI result's values when it supplies them and
\* "Medium", "Unable to assess" and "" otherwise; in the fallback branch
\* hallucinationRisk is the AI result's value when it supplies one and
\* "Unknown" otherwise.
C18_AiFieldDefaults ==
    Merged =>
        /\ vcResp.final.source = "backend+ai" =>
              /\ vcResp.final.hallucinationRisk =
                    AiValueOr("hallucinationRisk", <<"M", "e", "d", "i", "u", "m">>)
              /\ vcResp.final.hallucinationRiskReason =
                    AiValueOr("hallucinationRiskReason",
                              <<"U", "n", "a", "b", "l", "e", " ", "t", "o", " ",
                                "a", "s", "s", "e", "s", "s">>)
              /\ vcResp.final.analysisSummary = AiValueOr("analysisSummary", <<>>)
        /\ vcResp.final.source = "ai-only-fallback" =>
              vcResp.final.hallucinationRisk =
                  AiValueOr("hallucinationRisk", <<"U", "n", "k", "n", "o", "w", "n">>)

\* Scenario 1: the backend answers with score 82 and the AI call fails.
C18_Witness ==
    /\ Merged
    /\ vcAiOut.kind = "networkError"
    /\ vcBackendOut.kind = "ok"
    /\ vcResp.final.source = "backend+ai"
    /\ vcResp.final.trustScore = JNum(82)
    /\ Len(vcResp.final.claims) = 1
    /\ vcResp.final.claims[1].status = "verified"
    /\ vcResp.final.hallucinationRisk = JStr(<<"M", "e", "d", "i", "u", "m">>)

\* C19: in every result hallucinationRisk is one of Low, Medium, High and
\* Unknown.
C19_RiskInEnum ==
    Merged =>
        vcResp.final.hallucinationRisk \in
            { JStr(<<"L", "o", "w">>), JStr(<<"M", "e", "d", "i", "u", "m">>),
              JStr(<<"H", "i", "g", "h">>), JStr(<<"U", "n", "k", "n", "o", "w", "n">>) }

\* C20: in every result a claim's suggestedSources is empty unless the
\* claim's status is not verified and an AI suggestion matched the claim.
C20_SuggestedSourcesOnlyWhenUnverified ==
    (Merged /\ vcResp.final.source = "backend+ai") =>
        \A i \in DOMAIN vcResp.final.claims :
            vcResp.final.claims[i].suggestedSources # JArr(<<>>) =>
                /\ vcResp.final.claims[i].status # "verified"
                /\ AiSuggestion(Get(vcBackendResult, "claims").v[i], vcAiResult).k = "obj"

\* C26: each claim's suggestedSources is that of the first AI suggestion
\* matching the normalized claim's text, whichever key supplied it; without
\* one, the backend's own suggestedSources for the claim; without those,
\* the empty list.
C26_SuggestionSelection ==
    (Merged /\ vcResp.final.source = "backend+ai") =>
        \A i \in DOMAIN vcResp.final.claims :
            LET raw == Get(vcBackendResult, "claims").v[i]
                out == vcResp.final.claims[i]
                found == AiSuggestion(JObj([text |-> out.text]), vcAiResult)
            IN  found.k # "throw" =>
                    out.suggestedSources =
                        Or(Or(OptGet(found, "suggestedSources"),
                              Get(raw, "suggestedSources")),
                           JArr(<<>>))

\* C30: with the backend call succeeded and LOVABLE_API_KEY not configured
\* the response is the backend's result with source "backend+ai"; and no
\* backend call is issued for a request rejected for the missing key.
C30_BackendSurvivesMissingKey ==
    /\ (/\ vcPc = "responded"
        /\ ~vcApiKey
        /\ vcBackendOut.kind = "ok"
        /\ Truthy(vcBackendResult)) =>
          /\ vcResp.hasResult
          /\ vcResp.final.source = "backend+ai"
    /\ (vcPc = "responded" /\ vcResp.error = "LOVABLE_API_KEY is not configured") =>
          vcCalls = <<>>

(***************************************************************************)
(* Properties of detect-ai.                                                *)
(***************************************************************************)
\* C21: a gateway response with status 429 is answered 429, one with status
\* 402 is answered 402, and every other failure of the gateway call (another
\* non-2xx status, a network error, a body that is not JSON, an empty
\* completion) is answered 500,
\* each with an error.
C21_RateLimitAndQuotaPropagate ==
    (/\ dtPc = "responded"
     /\ dtOut.kind \in { "non2xx", "networkError", "badJson", "noContent" }) =>
        /\ dtResp.error # ""
        /\ dtResp.status =
              IF dtOut.kind = "non2xx" /\ dtOut.status \in { 429, 402 }
              THEN dtOut.status
              ELSE 500

\* The gateway answered 429 and so did the handler.
C21_Witness ==
    /\ dtPc = "responded"
    /\ dtOut.kind = "non2xx"
    /\ dtOut.status = 429
    /\ dtResp.status = 429
    /\ dtResp.error = "Rate limit exceeded. Please try again in a moment."

\* C22: when the completion is not valid JSON the handler answers 200 with
\* isAiGenerated = false, confidence = 50 and analysis "Unable to determine
\* AI authorship".
C22_ParseErrorGivesDefault ==
    (dtPc = "responded" /\ dtOut.kind = "unparsable") =>
        /\ dtResp.status = 200
        /\ dtResp.result.k = "obj"
        /\ dtResp.result.v.isAiGenerated = JBool(FALSE)
        /\ dtResp.result.v.confidence = JNum(50)
        /\ dtResp.result.v.analysis =
              JStr(<<"U", "n", "a", "b", "l", "e", " ", "t", "o", " ", "d", "e", "t",
                     "e", "r", "m", "i", "n", "e", " ", "A", "I", " ", "a", "u", "t",
                     "h", "o", "r", "s", "h", "i", "p">>)

\* A completion that did not parse, answered 200 with no indicators.
C22_Witness ==
    /\ dtPc = "responded"
    /\ dtOut.kind = "unparsable"
    /\ dtCalls = 1
    /\ dtResp.status = 200
    /\ dtResp.result.v.indicators = JArr(<<>>)

(***************************************************************************)
(* Properties of the client.                                               *)
(***************************************************************************)
\* The data of a verify-content response is the ai-only-fallback result.
IsFallback(response) ==
    /\ ~Truthy(response.error)
    /\ Get(response.data, "source") = "ai-only-fallback"

\* C23: when Verify returns the zero-trust-score ai-only-fallback result,
\* handleVerify stores it as the current result (trust score 0, no claims,
\* no citations, source "ai-only-fallback") and shows the results view.
C23_FallbackIsRendered ==
    [][(/\ dbVerifyCall.pc = "settled"
        /\ IsFallback(dbVerifyCall.verifyResponse)
        /\ dbVerifyCall'.pc # "settled") =>
          /\ dbShowResults'
          /\ Truthy(dbResult')
          /\ Get(dbResult', "trustScore") = JNum(0)
          /\ Get(dbResult', "claims") = JArr(<<>>)
          /\ Get(dbResult', "citations") = JArr(<<>>)
          /\ Get(dbResult', "source") = "ai-only-fallback"]_vars

\* A call of handleVerify that verify-content answered with a result ends.
VerificationCompletes ==
    /\ dbIsVerifying
    /\ ~dbIsVerifying'
    /\ ~Truthy(dbVerifyCall.verifyResponse.error)

\* C24: every step leaves the rows of verification_history as they are,
\* except that the end of a verification that completed appends one row.
C24_HistoryAppendOnly ==
    [][/\ Len(dbHistory') >= Len(dbHistory)
       /\ SubSeq(dbHistory', 1, Len(dbHistory)) = dbHistory
       /\ Len(dbHistory') = Len(dbHistory) + (IF VerificationCompletes THEN 1 ELSE 0)]_vars

\* The claims and the sources of the citations are those of one
\* verification: of some response of verify-content to one text.
OfOneVerification(claims, citations) ==
    \E text \in { TextEiffel, TextMoon } :
       \E r \in InvokeResults(text) :
          LET data == r.verifyResponse.data
          IN  /\ Truthy(data)
              /\ Get(data, "claims") = claims
              /\ Len(Get(data, "citations").v) = Len(citations.v)
              /\ \A i \in DOMAIN citations.v :
                    /\ Get(data, "citations").v[i].source = citations.v[i].source
                    /\ Get(data, "citations").v[i].url = citations.v[i].url

\* C28: at every point the citations of the current result belong to the
\* same verification as its claims.
C28_CitationsBelongToResult ==
    Truthy(dbResult) =>
        OfOneVerification(Get(dbResult, "claims"), Get(dbResult, "citations"))

\* The trustScore values verify-content can answer with for some text.
ResponseScores ==
    { Get(r.verifyResponse.data, "trustScore") :
        r \in { q \in InvokeResults(TextEiffel) \cup InvokeResults(TextMoon) :
                  ~Truthy(q.verifyResponse.error) } }

\* C29: the trust score of the result the dashboard builds and the
\* trust_score of the row it inserts equal the trustScore of the response,
\* and the scores of comparison mode are scores verify-content answered
\* with, their difference being the difference of two such scores.
C29_ScoreIsResponseScore ==
    /\ dbVerifyCall.pc = "saving" =>
          Get(dbVerifyCall.verificationResult, "trustScore") =
              Get(dbVerifyCall.verifyResponse.data, "trustScore")
    /\ \A i \in DOMAIN dbHistory : dbHistory[i].trust_score \in ResponseScores
    /\ Truthy(cmpResultA) => Get(cmpResultA, "trustScore") \in ResponseScores
    /\ Truthy(cmpResultB) => Get(cmpResultB, "trustScore") \in ResponseScores
    /\ Truthy(getScoreDiff) =>
          \E a \in ResponseScores, b \in ResponseScores : getScoreDiff = JNum(b.v - a.v)

====
